---- MODULE Spec2Model ----
(***************************************************************************)
(* SmartStudyPlanner: the Task / User / Planner aggregate and the study    *)
(* strategies (src/core, src/strategies), the SQLite database              *)
(* (src/database.py) and the focus page (src/focus_page.py), as a state    *)
(* machine.                                                                *)
(*                                                                         *)
(* Python objects live in heaps: `tasks` holds the Task objects (a Task    *)
(* reference is an index into it), `lists` holds the Python list objects   *)
(* (a list reference is an index into it), so that two names can alias     *)
(* the same list.  `last`, `ret`, `err` and `calls` record the most recent *)
(* call: its name and arguments, its return value, the exception it        *)
(* raised, and the strategy methods it invoked.  `page`, `db` and `now`    *)
(* are the FocusPage object, the database and the wall clock.              *)
(***************************************************************************)
EXTENDS Integers, Sequences, FiniteSets, TLC

VARIABLES
    tasks,            \* heap of Task objects: Seq of task records
    lists,            \* heap of list objects: Seq of Seq of Task references
    users,            \* heap of User objects: Seq of user records
    planner_user,     \* Planner.__user: a User reference
    planner_tasks,    \* Planner.__tasks: None or Some(list reference)
    planner_strategy, \* Planner.__strategy: None or Some(strategy object)
    last,             \* the most recent call: [op, args]
    ret,              \* what it returned (None for a call returning nothing)
    err,              \* the exception it raised, NoError when it returned
    calls,            \* the strategy methods it invoked, in order
    page,             \* the FocusPage object: a record of its attributes
    db,               \* the SQLite database: a record of its tables
    now               \* the wall clock, as datetime.now() reads it

vars == <<tasks, lists, users, planner_user, planner_tasks, planner_strategy,
          last, ret, err, calls, page, db, now>>

planner_vars == <<planner_user, planner_tasks, planner_strategy>>
heap_vars == <<tasks, lists, users>>
focus_vars == <<page, db, now>>

----------------------------------------------------------------------------
(* Bounds of the model. *)

MaxTasks == 2
MaxLen == 3
MaxDeadline == 2
MaxPriority == 2
MaxTaskId == 2
MaxDuration == 1
MaxPad == 1

----------------------------------------------------------------------------
(* Python values. *)

\* Python's None, and a present value, as a sequence of length 0 or 1.
None == <<>>
Some(x) == <<x>>

\* The specifications of core/ and strategies/ build no FocusPage and open
\* no database.
NoFocusPage == page = None /\ db = None /\ now = 0

NoError == [type |-> "none"]
ValueError(message) == [type |-> "ValueError", msg |-> message]
TypeError(message) == [type |-> "TypeError", msg |-> message]

Call(name, arguments) == [op |-> name, args |-> arguments]

\* The values the model draws for the fields of a Task.
TaskIds == 1..MaxTaskId
Priorities == 1..MaxPriority
Titles == {"Finish AI homework", "Update portfolio website"}
Deadlines == {None} \cup {Some(d) : d \in 1..MaxDeadline}
Durations == 0..MaxDuration
ValidStatuses == {"pending", "done"}
StatusInputs == {"pending", "done", "in_progress", "Done"}

----------------------------------------------------------------------------
(* core/Task.py *)

Task_init(taskid, priority, title, deadline, duration, status) ==
    [taskid |-> taskid, priority |-> priority, title |-> title,
     deadline |-> deadline, duration |-> duration, status |-> status]

Task_get_status(t) == t.status
Task_get_deadline(t) == t.deadline
Task_get_priority(t) == t.priority

\* A set_status that assigns before it validates.
Task_set_status_unchecked(t, new_status) ==
    [task |-> [t EXCEPT !.status = new_status],
     err |-> IF new_status \in ValidStatuses
             THEN NoError
             ELSE ValueError("Status must be either 'pending' or 'done'")]

\* A set_status that falls back to "pending" when it rejects a value.
Task_set_status_fallback(t, new_status) ==
    IF new_status \in {"pending", "done"}
    THEN [task |-> [t EXCEPT !.status = new_status], err |-> NoError]
    ELSE [task |-> [t EXCEPT !.status = "pending"],
          err |-> ValueError("Status must be either 'pending' or 'done'")]

\* set_status: the task and the exception after the call.
Task_set_status(t, new_status) ==
    IF new_status \in {"pending", "done"}
    THEN [task |-> [t EXCEPT !.status = new_status], err |-> NoError]
    ELSE [task |-> t,
          err |-> ValueError("Status must be either 'pending' or 'done'")]

Task_set_deadline(t, new_deadline) == [t EXCEPT !.deadline = new_deadline]

Task_mark_done(t) == Task_set_status(t, "done")

\* A reschedule that reopens the task.
Task_reschedule_reopen(t, new_deadline) ==
    [Task_set_deadline(t, new_deadline) EXCEPT !.status = "pending"]

Task_reschedule(t, new_deadline) == Task_set_deadline(t, new_deadline)

TaskRefs == 1..Len(tasks)

\* Task(...): a new object on the heap; the constructor stores its
\* arguments as they are.
NewTask(taskid, priority, title, deadline, duration, status) ==
    /\ tasks' = Append(tasks,
                       Task_init(taskid, priority, title, deadline, duration, status))
    /\ last' = Call("Task", <<taskid, priority, title, deadline, duration, status>>)
    /\ ret' = Some(Len(tasks) + 1)
    /\ err' = NoError
    /\ calls' = <<>>
    /\ UNCHANGED <<focus_vars, lists, users, planner_vars>>

SetTaskid(r, new_taskid) ==
    /\ tasks' = [tasks EXCEPT ![r].taskid = new_taskid]
    /\ last' = Call("set_taskid", <<r, new_taskid>>)
    /\ ret' = None /\ err' = NoError /\ calls' = <<>>
    /\ UNCHANGED <<focus_vars, lists, users, planner_vars>>

SetPriority(r, new_priority) ==
    /\ tasks' = [tasks EXCEPT ![r].priority = new_priority]
    /\ last' = Call("set_priority", <<r, new_priority>>)
    /\ ret' = None /\ err' = NoError /\ calls' = <<>>
    /\ UNCHANGED <<focus_vars, lists, users, planner_vars>>

SetTitle(r, new_title) ==
    /\ tasks' = [tasks EXCEPT ![r].title = new_title]
    /\ last' = Call("set_title", <<r, new_title>>)
    /\ ret' = None /\ err' = NoError /\ calls' = <<>>
    /\ UNCHANGED <<focus_vars, lists, users, planner_vars>>

SetDeadline(r, new_deadline) ==
    /\ tasks' = [tasks EXCEPT ![r] = Task_set_deadline(tasks[r], new_deadline)]
    /\ last' = Call("set_deadline", <<r, new_deadline>>)
    /\ ret' = None /\ err' = NoError /\ calls' = <<>>
    /\ UNCHANGED <<focus_vars, lists, users, planner_vars>>

SetDuration(r, new_duration) ==
    /\ tasks' = [tasks EXCEPT ![r].duration = new_duration]
    /\ last' = Call("set_duration", <<r, new_duration>>)
    /\ ret' = None /\ err' = NoError /\ calls' = <<>>
    /\ UNCHANGED <<focus_vars, lists, users, planner_vars>>

SetStatus(r, new_status) ==
    /\ tasks' = [tasks EXCEPT ![r] = Task_set_status(tasks[r], new_status).task]
    /\ last' = Call("set_status", <<r, new_status>>)
    /\ ret' = None
    /\ err' = Task_set_status(tasks[r], new_status).err
    /\ calls' = <<>>
    /\ UNCHANGED <<focus_vars, lists, users, planner_vars>>

MarkDone(r) ==
    /\ tasks' = [tasks EXCEPT ![r] = Task_mark_done(tasks[r]).task]
    /\ last' = Call("mark_done", <<r>>)
    /\ ret' = None
    /\ err' = Task_mark_done(tasks[r]).err
    /\ calls' = <<>>
    /\ UNCHANGED <<focus_vars, lists, users, planner_vars>>

Reschedule(r, new_deadline) ==
    /\ tasks' = [tasks EXCEPT ![r] = Task_reschedule(tasks[r], new_deadline)]
    /\ last' = Call("reschedule", <<r, new_deadline>>)
    /\ ret' = None /\ err' = NoError /\ calls' = <<>>
    /\ UNCHANGED <<focus_vars, lists, users, planner_vars>>

\* The two User objects of the model, each with a task list of its own.
InitUsers ==
    << [username |-> "dogukanavci", email |-> "dogukan@example.com", tasks |-> 1],
       [username |-> "guest", email |-> "guest@example.com", tasks |-> 2] >>

\* One Task object followed through its life: construction with any
\* arguments, then any sequence of its setters and behaviours.
TaskInit ==
    /\ tasks = <<>>
    /\ lists = << <<>>, <<>> >>
    /\ users = InitUsers
    /\ NoFocusPage
    /\ planner_user = 1
    /\ planner_tasks = Some(1)
    /\ planner_strategy = None
    /\ last = Call("init", <<>>)
    /\ ret = None
    /\ err = NoError
    /\ calls = <<>>

TaskConstruct ==
    /\ tasks = <<>>
    /\ \E taskid \in TaskIds, priority \in Priorities, title \in Titles,
          deadline \in Deadlines, duration \in Durations, status \in StatusInputs :
          NewTask(taskid, priority, title, deadline, duration, status)

TaskNext ==
    \/ TaskConstruct
    \/ \E r \in TaskRefs, v \in TaskIds : SetTaskid(r, v)
    \/ \E r \in TaskRefs, v \in Priorities : SetPriority(r, v)
    \/ \E r \in TaskRefs, v \in Titles : SetTitle(r, v)
    \/ \E r \in TaskRefs, v \in Deadlines : SetDeadline(r, v)
    \/ \E r \in TaskRefs, v \in Durations : SetDuration(r, v)
    \/ \E r \in TaskRefs, v \in StatusInputs : SetStatus(r, v)
    \/ \E r \in TaskRefs : MarkDone(r)
    \/ \E r \in TaskRefs, v \in Deadlines : Reschedule(r, v)

SpecTask == TaskInit /\ [][TaskNext]_vars

----------------------------------------------------------------------------
(* Claims about Task, checked under SpecTask. *)

\* C1: for every Task and every value v outside {"pending", "done"},
\* set_status(v) fails with an error and the task's status after the call
\* is exactly the status it had before the call.
C1_SetStatusRejectsInvalid ==
    [][\A r \in TaskRefs :
          (/\ last'.op = "set_status"
           /\ last'.args[1] = r
           /\ last'.args[2] \notin ValidStatuses)
          => (/\ err'.type = "ValueError"
              /\ Task_get_status(tasks'[r]) = Task_get_status(tasks[r]))]_vars

\* A rejected set_status("in_progress") on a task whose status was "done".
C1_Witness ==
    /\ last.op = "set_status"
    /\ last.args[2] = "in_progress"
    /\ err.type = "ValueError"
    /\ tasks[last.args[1]].status = "done"

\* C2: in every reachable state the status of every Task is "pending" or
\* "done", after construction with any arguments and after any sequence of
\* set_status, mark_done, reschedule and the other setters.
C2_StatusAlwaysValid ==
    \A r \in TaskRefs : Task_get_status(tasks[r]) \in ValidStatuses

----------------------------------------------------------------------------
(* strategies: the three study strategies *)

PomodoroWorkDefault == 25
PomodoroBreakDefault == 5
DeepWorkWorkDefault == 90
DeepWorkBreakDefault == 15
BalancedShortDefault == 30
BalancedLongDefault == 60
BalancedBreakDefault == 10
BalancedMediumExtra == 15

PomodoroStrategy_init(work_duration, break_duration) ==
    [cls |-> "PomodoroStrategy",
     work_duration |-> work_duration, break_duration |-> break_duration]

DeepWorkStrategy_init(work_duration, break_duration) ==
    [cls |-> "DeepWorkStrategy",
     work_duration |-> work_duration, break_duration |-> break_duration]

BalancedStrategy_init(short_session, long_session, break_duration) ==
    [cls |-> "BalancedStrategy",
     short_session |-> short_session, long_session |-> long_session,
     break_duration |-> break_duration]

\* The constructors called without arguments.
PomodoroStrategy == PomodoroStrategy_init(PomodoroWorkDefault, PomodoroBreakDefault)
DeepWorkStrategy == DeepWorkStrategy_init(DeepWorkWorkDefault, DeepWorkBreakDefault)
BalancedStrategy ==
    BalancedStrategy_init(BalancedShortDefault, BalancedLongDefault, BalancedBreakDefault)

\* start_session and take_break print the minutes of the period they
\* begin: the model keeps those minutes.
PomodoroStrategy_start_session(self) == self.work_duration
DeepWorkStrategy_start_session(self) == self.work_duration
\* A start_session whose medium session is the short one.
BalancedStrategy_start_session_short(self, task_complexity) ==
    IF task_complexity = "deep" THEN self.long_session ELSE self.short_session

BalancedStrategy_start_session(self, task_complexity) ==
    IF task_complexity = "light" THEN self.short_session
    ELSE IF task_complexity = "deep" THEN self.long_session
    ELSE self.short_session + BalancedMediumExtra

\* strategy.start_session() as the Planner calls it, without an argument.
start_session(self) ==
    CASE self.cls = "PomodoroStrategy" -> PomodoroStrategy_start_session(self)
      [] self.cls = "DeepWorkStrategy" -> DeepWorkStrategy_start_session(self)
      [] self.cls = "BalancedStrategy" -> BalancedStrategy_start_session(self, "medium")

take_break(self) == self.break_duration

\* One invocation of a strategy method, as `calls` records it.
Invocation(self, method, minutes) ==
    [obj |-> self, method |-> method, minutes |-> minutes]

----------------------------------------------------------------------------
(* Strings of the factory: a str is a sequence of one-character strings. *)

UpperLetters == <<"A", "B", "C", "D", "E", "F", "G", "H", "I", "J", "K", "L", "M",
                  "N", "O", "P", "Q", "R", "S", "T", "U", "V", "W", "X", "Y", "Z">>
LowerLetters == <<"a", "b", "c", "d", "e", "f", "g", "h", "i", "j", "k", "l", "m",
                  "n", "o", "p", "q", "r", "s", "t", "u", "v", "w", "x", "y", "z">>
Whitespace == {" ", "\t"}

Letters == 1..Len(UpperLetters)

LowerChar(c) ==
    IF \E i \in Letters : UpperLetters[i] = c
    THEN LowerLetters[CHOOSE i \in Letters : UpperLetters[i] = c]
    ELSE c

UpperChar(c) ==
    IF \E i \in Letters : LowerLetters[i] = c
    THEN UpperLetters[CHOOSE i \in Letters : LowerLetters[i] = c]
    ELSE c

\* str.lower()
Lower(s) == [i \in 1..Len(s) |-> LowerChar(s[i])]

\* str.strip(): leading and trailing whitespace removed.
RECURSIVE LStrip(_)
LStrip(s) ==
    IF s # <<>> /\ Head(s) \in Whitespace THEN LStrip(Tail(s)) ELSE s

RECURSIVE RStrip(_)
RStrip(s) ==
    IF s # <<>> /\ s[Len(s)] \in Whitespace
    THEN RStrip(SubSeq(s, 1, Len(s) - 1))
    ELSE s

Strip(s) == RStrip(LStrip(s))

Str_pomodoro == <<"p", "o", "m", "o", "d", "o", "r", "o">>
Str_deepwork == <<"d", "e", "e", "p", "w", "o", "r", "k">>
Str_balanced == <<"b", "a", "l", "a", "n", "c", "e", "d">>

----------------------------------------------------------------------------
(* strategies/factory.py *)

\* list(strategies.keys()): the keys of the dict, in insertion order.
Factory_keys == <<Str_pomodoro, Str_deepwork, Str_balanced>>

\* strategies[key]()
Factory_construct(key) ==
    CASE key = Str_pomodoro -> PomodoroStrategy
      [] key = Str_deepwork -> DeepWorkStrategy
      [] key = Str_balanced -> BalancedStrategy

\* A key that is trimmed and not lower-cased.
Factory_key_nolower(strategy_name) == Strip(strategy_name)

\* key = strategy_name.lower().strip()
Factory_key(strategy_name) == Strip(Lower(strategy_name))

\* An error that reports the normalised key in place of the name given.
Factory_error_key(strategy_name) ==
    ValueError([text |-> "Unknown strategy",
                name |-> Factory_key(strategy_name),
                options |-> Factory_keys])

\* The ValueError of create: its message holds the name as given and the
\* list of the dict's keys.
Factory_error(strategy_name) ==
    ValueError([text |-> "Unknown strategy",
                name |-> strategy_name,
                options |-> Factory_keys])

\* StrategyFactory.create: what it returns and what it raises.
StrategyFactory_create(strategy_name) ==
    LET key == Factory_key(strategy_name)
    IN  IF \A i \in 1..Len(Factory_keys) : Factory_keys[i] # key
        THEN [ret |-> None, err |-> Factory_error(strategy_name)]
        ELSE [ret |-> Some(Factory_construct(key)), err |-> NoError]

\* The names given to the factory: a token or a near miss, in lower case,
\* upper case or capitalised, between up to MaxPad whitespace characters.
RECURSIVE PadsOfLen(_)
PadsOfLen(n) ==
    IF n = 0 THEN {<<>>}
    ELSE {<<c>> \o p : c \in Whitespace, p \in PadsOfLen(n - 1)}

Pads == UNION {PadsOfLen(n) : n \in 0..MaxPad}

UpperAll(s) == [i \in 1..Len(s) |-> UpperChar(s[i])]
Capitalize(s) == [i \in 1..Len(s) |-> IF i = 1 THEN UpperChar(s[i]) ELSE s[i]]

NameStems ==
    {Str_pomodoro, Str_deepwork, Str_balanced,
     <<"d", "e", "e", "p", " ", "w", "o", "r", "k">>,
     <<"p", "o", "m", "o", "d", "o", "r">>,
     <<"f", "o", "c", "u", "s">>,
     <<>>}

NameSpellings ==
    UNION {{s, UpperAll(s), Capitalize(s)} : s \in NameStems}
    \cup {<<"D", "e", "e", "p", " ", "W", "o", "r", "k">>,
          <<"D", "e", "e", "p", "W", "o", "r", "k">>}

StrategyNames == {l \o s \o r : l \in Pads, s \in NameSpellings, r \in Pads}

Create(strategy_name) ==
    LET out == StrategyFactory_create(strategy_name)
    IN  /\ last' = Call("create", <<strategy_name>>)
        /\ ret' = out.ret
        /\ err' = out.err
        /\ calls' = <<>>
        /\ UNCHANGED <<focus_vars, heap_vars, planner_vars>>

FactoryInit == TaskInit

FactoryNext == \E strategy_name \in StrategyNames : Create(strategy_name)

SpecFactory == FactoryInit /\ [][FactoryNext]_vars

----------------------------------------------------------------------------
(* Claims about StrategyFactory, checked under SpecFactory. *)

\* name is token with any of its letters in upper case, between whitespace.
IsSpellingOf(name, token) ==
    \E i \in 0..Len(name), j \in 0..Len(name) :
        /\ j - i = Len(token)
        /\ \A k \in 1..i : name[k] \in Whitespace
        /\ \A k \in (j + 1)..Len(name) : name[k] \in Whitespace
        /\ \A k \in 1..Len(token) :
              name[i + k] = token[k] \/ name[i + k] = UpperChar(token[k])

\* C3: for every name that equals "pomodoro", "deepwork" or "balanced"
\* after lower-casing and trimming surrounding whitespace, create(name)
\* returns an instance of the matching variant with its default durations:
\* Pomodoro 25 work / 5 break, DeepWork 90 work / 15 break, Balanced 30
\* short / 60 long / 10 break.
C3_CreateKnown ==
    last.op = "create" =>
        LET name == last.args[1]
        IN  /\ IsSpellingOf(name, Str_pomodoro) =>
                 /\ err = NoError
                 /\ ret = Some([cls |-> "PomodoroStrategy",
                                work_duration |-> 25, break_duration |-> 5])
            /\ IsSpellingOf(name, Str_deepwork) =>
                 /\ err = NoError
                 /\ ret = Some([cls |-> "DeepWorkStrategy",
                                work_duration |-> 90, break_duration |-> 15])
            /\ IsSpellingOf(name, Str_balanced) =>
                 /\ err = NoError
                 /\ ret = Some([cls |-> "BalancedStrategy",
                                short_session |-> 30, long_session |-> 60,
                                break_duration |-> 10])

\* create(" DEEPWORK\t") has returned a DeepWorkStrategy.
C3_Witness ==
    /\ last.op = "create"
    /\ last.args[1] = <<" ">> \o UpperAll(Str_deepwork) \o <<"\t">>
    /\ ret # None
    /\ ret[1].cls = "DeepWorkStrategy"

\* C4: for every name whose lower-cased, trimmed form is not one of the
\* three tokens (labels such as "Deep Work", with an inner space, included),
\* create(name) returns no strategy and fails with an error that carries
\* the attempted name and lists exactly the three valid options.
C4_CreateUnknown ==
    last.op = "create" =>
        LET name == last.args[1]
        IN  (\A i \in 1..Len(Factory_keys) : ~IsSpellingOf(name, Factory_keys[i])) =>
                /\ ret = None
                /\ err.type = "ValueError"
                /\ err.msg.name = name
                /\ err.msg.options = <<Str_pomodoro, Str_deepwork, Str_balanced>>

\* create(" Deep Work") has failed.
C4_Witness ==
    /\ last.op = "create"
    /\ last.args[1] = <<" ", "D", "e", "e", "p", " ", "W", "o", "r", "k">>
    /\ err.type = "ValueError"
    /\ ret = None

----------------------------------------------------------------------------
(* Python lists and sorted() *)

\* x in l: Task defines no __eq__, so two tasks are equal when they are
\* the same object, that is the same reference.
list_contains(l, x) == \E i \in 1..Len(l) : l[i] = x

\* l.remove(x), for x in l: the first occurrence goes.
list_remove(l, x) ==
    LET i == CHOOSE i \in 1..Len(l) :
                 l[i] = x /\ \A j \in 1..(i - 1) : l[j] # x
    IN  SubSeq(l, 1, i - 1) \o SubSeq(l, i + 1, Len(l))

\* The keys sorted() compares: None, a datetime or an int.
NoneKey == [type |-> "NoneType"]
DatetimeKey(d) == [type |-> "datetime", v |-> d]
IntKey(n) == [type |-> "int", v |-> n]

\* a < b: None supports no ordering, with None or with a datetime.
Py_lt(a, b) ==
    IF a.type = "NoneType" \/ b.type = "NoneType" \/ a.type # b.type
    THEN [ok |-> FALSE, val |-> FALSE]
    ELSE [ok |-> TRUE, val |-> a.v < b.v]

\* x goes after the elements of the sorted acc that are not greater than
\* it; j is the element of acc it is compared with next.
RECURSIVE sorted_insert(_, _, _, _, _)
sorted_insert(acc, acc_keys, x, x_key, j) ==
    IF j = 0
    THEN [ok |-> TRUE, items |-> <<x>> \o acc, keys |-> <<x_key>> \o acc_keys]
    ELSE LET c == Py_lt(x_key, acc_keys[j])
         IN  IF ~c.ok THEN [ok |-> FALSE, items |-> <<>>, keys |-> <<>>]
             ELSE IF c.val
             THEN sorted_insert(acc, acc_keys, x, x_key, j - 1)
             ELSE [ok |-> TRUE,
                   items |-> SubSeq(acc, 1, j) \o <<x>> \o SubSeq(acc, j + 1, Len(acc)),
                   keys |-> SubSeq(acc_keys, 1, j) \o <<x_key>>
                            \o SubSeq(acc_keys, j + 1, Len(acc_keys))]

RECURSIVE sorted_from(_, _, _, _, _)
sorted_from(items, keys, i, acc, acc_keys) ==
    IF i > Len(items) THEN [ok |-> TRUE, items |-> acc]
    ELSE LET step == sorted_insert(acc, acc_keys, items[i], keys[i], Len(acc))
         IN  IF ~step.ok THEN [ok |-> FALSE, items |-> <<>>]
             ELSE sorted_from(items, keys, i + 1, step.items, step.keys)

\* sorted(items, key=...): a new list, stable; keys[i] is the key of
\* items[i].  ok is FALSE when a comparison raised TypeError.
sorted(items, keys) == sorted_from(items, keys, 1, <<>>, <<>>)

----------------------------------------------------------------------------
(* core/planner.py *)

\* The list object behind Planner.__tasks.
PlannerList == lists[planner_tasks[1]]

\* A constructor that keeps the tasks argument as it is.
Planner_init_tasks_raw(tasks_arg, fresh) == tasks_arg

\* A constructor that always keeps a list of its own.
Planner_init_tasks_own(tasks_arg, fresh) == Some(fresh)

\* self.__tasks = [] if tasks is None else tasks
Planner_init_tasks(tasks_arg, fresh) ==
    IF tasks_arg = None THEN Some(fresh) ELSE tasks_arg

Planner_get_strategy == planner_strategy

\* A set_strategy that keeps a strategy already set.
Planner_set_strategy_once(new_strategy) ==
    IF planner_strategy = None THEN new_strategy ELSE planner_strategy

\* set_strategy: the new value of __strategy.
Planner_set_strategy(new_strategy) == new_strategy

\* show_stats: sum(1 for t in tasks if t.get_status() == status)
RECURSIVE count_status(_, _)
count_status(l, status) ==
    IF l = <<>> THEN 0
    ELSE (IF Task_get_status(tasks[Head(l)]) = status THEN 1 ELSE 0)
         + count_status(Tail(l), status)

\* Statistics that take every task that is not done for a pending one.
Planner_show_stats_rest ==
    [done |-> count_status(PlannerList, "done"),
     pending |-> Len(PlannerList) - count_status(PlannerList, "done")]

\* {"done": done, "pending": pending}
Planner_show_stats ==
    [done |-> count_status(PlannerList, "done"),
     pending |-> count_status(PlannerList, "pending")]

\* A filter that collects its matches last to first.
RECURSIVE filter_reversed(_, _)
filter_reversed(l, by_status) ==
    IF l = <<>> THEN <<>>
    ELSE filter_reversed(Tail(l), by_status)
         \o (IF Task_get_status(tasks[Head(l)]) = by_status THEN <<Head(l)>> ELSE <<>>)

\* [t for t in l if t.get_status() == by_status]
RECURSIVE filter_status(_, _)
filter_status(l, by_status) ==
    IF l = <<>> THEN <<>>
    ELSE (IF Task_get_status(tasks[Head(l)]) = by_status THEN <<Head(l)>> ELSE <<>>)
         \o filter_status(Tail(l), by_status)

Planner_filter_tasks_reversed(by_status) == filter_reversed(PlannerList, by_status)

Planner_filter_tasks(by_status) == filter_status(PlannerList, by_status)

\* key=lambda t: t.get_deadline() and key=lambda t: t.get_priority()
deadline_key(r) ==
    IF Task_get_deadline(tasks[r]) = None
    THEN NoneKey
    ELSE DatetimeKey(Task_get_deadline(tasks[r])[1])

\* A priority key that puts the higher number first.
priority_key_desc(r) == IntKey(0 - Task_get_priority(tasks[r]))

priority_key(r) == IntKey(Task_get_priority(tasks[r]))

sort_keys(l, by_deadline) ==
    [i \in 1..Len(l) |-> IF by_deadline THEN deadline_key(l[i]) ELSE priority_key(l[i])]

\* A sort that walks the list from its end: equal keys come out reversed.
Planner_sort_tasks_unstable(by_deadline) ==
    LET l == PlannerList
        reversed == [i \in 1..Len(l) |-> l[Len(l) + 1 - i]]
    IN  sorted(reversed, sort_keys(reversed, by_deadline))

\* sort_tasks: the sorted copy, or ok = FALSE when sorted() raised.
Planner_sort_tasks(by_deadline) ==
    sorted(PlannerList, sort_keys(PlannerList, by_deadline))

\* The break taken ahead of the session.
Planner_execute_calls_swapped(strategy) ==
    << Invocation(strategy, "take_break", take_break(strategy)),
       Invocation(strategy, "start_session", start_session(strategy)) >>

\* self.__strategy.start_session(); self.__strategy.take_break()
Planner_execute_calls(strategy) ==
    << Invocation(strategy, "start_session", start_session(strategy)),
       Invocation(strategy, "take_break", take_break(strategy)) >>

\* execute_strategy without its guard: the call on None fails.
Planner_execute_strategy_unguarded ==
    IF planner_strategy = None
    THEN [calls |-> <<>>,
          err |-> [type |-> "AttributeError",
                   msg |-> "'NoneType' object has no attribute 'start_session'"]]
    ELSE [calls |-> Planner_execute_calls(planner_strategy[1]), err |-> NoError]

\* execute_strategy: the methods it invokes and the exception it raises.
\* `not self.__strategy` is true of None alone: the strategy classes define
\* neither __bool__ nor __len__.
Planner_execute_strategy ==
    IF planner_strategy = None
    THEN [calls |-> <<>>,
          err |-> ValueError("No study strategy has been set for this planner.")]
    ELSE [calls |-> Planner_execute_calls(planner_strategy[1]), err |-> NoError]

SetUser(new_user) ==
    /\ planner_user' = new_user
    /\ last' = Call("set_user", <<new_user>>)
    /\ ret' = None /\ err' = NoError /\ calls' = <<>>
    /\ UNCHANGED <<focus_vars, heap_vars, planner_tasks, planner_strategy>>

GetStrategy ==
    /\ last' = Call("get_strategy", <<>>)
    /\ ret' = Planner_get_strategy
    /\ err' = NoError /\ calls' = <<>>
    /\ UNCHANGED <<focus_vars, heap_vars, planner_vars>>

SetStrategy(new_strategy) ==
    /\ planner_strategy' = Planner_set_strategy(new_strategy)
    /\ last' = Call("set_strategy", <<new_strategy>>)
    /\ ret' = None /\ err' = NoError /\ calls' = <<>>
    /\ UNCHANGED <<focus_vars, heap_vars, planner_user, planner_tasks>>

AddTask(task) ==
    /\ lists' = [lists EXCEPT ![planner_tasks[1]] = Append(@, task)]
    /\ last' = Call("add_task", <<task>>)
    /\ ret' = None /\ err' = NoError /\ calls' = <<>>
    /\ UNCHANGED <<focus_vars, tasks, users, planner_vars>>

RemoveTask(task) ==
    /\ lists' = IF list_contains(PlannerList, task)
                THEN [lists EXCEPT ![planner_tasks[1]] = list_remove(@, task)]
                ELSE lists
    /\ last' = Call("remove_task", <<task>>)
    /\ ret' = None /\ err' = NoError /\ calls' = <<>>
    /\ UNCHANGED <<focus_vars, tasks, users, planner_vars>>

ShowStats ==
    /\ last' = Call("show_stats", <<>>)
    /\ ret' = Planner_show_stats
    /\ err' = NoError /\ calls' = <<>>
    /\ UNCHANGED <<focus_vars, heap_vars, planner_vars>>

FilterTasks(by_status) ==
    /\ last' = Call("filter_tasks", <<by_status>>)
    /\ ret' = Planner_filter_tasks(by_status)
    /\ err' = NoError /\ calls' = <<>>
    /\ UNCHANGED <<focus_vars, heap_vars, planner_vars>>

SortTasks(by_deadline) ==
    LET out == Planner_sort_tasks(by_deadline)
    IN  /\ last' = Call("sort_tasks", <<by_deadline>>)
        /\ ret' = IF out.ok THEN out.items ELSE None
        /\ err' = IF out.ok THEN NoError
                  ELSE TypeError("'<' not supported between instances")
        /\ calls' = <<>>
        /\ UNCHANGED <<focus_vars, heap_vars, planner_vars>>

ExecuteStrategy ==
    LET out == Planner_execute_strategy
    IN  /\ last' = Call("execute_strategy", <<>>)
        /\ ret' = None
        /\ err' = out.err
        /\ calls' = out.calls
        /\ UNCHANGED <<focus_vars, heap_vars, planner_vars>>

----------------------------------------------------------------------------
(* The planner through its life: Spec. *)

UserRefs == 1..Len(users)

\* The strategies handed to a Planner: what the factory creates, or None.
StrategyArgs ==
    {None} \cup {StrategyFactory_create(Factory_keys[i]).ret :
                    i \in 1..Len(Factory_keys)}

\* Planner(user, strategy, tasks): tasks is left out (None), or is the list
\* user.get_tasks() returns, which is the user's own list object.  The User
\* objects exist, with their empty lists 1 and 2.
Init ==
    /\ tasks = <<>>
    /\ users = InitUsers
    /\ NoFocusPage
    /\ \E user \in 1..2, strategy \in StrategyArgs, own_list \in BOOLEAN :
          LET tasks_arg == IF own_list THEN None ELSE Some(InitUsers[user].tasks)
          IN  /\ lists = IF tasks_arg = None
                         THEN << <<>>, <<>>, <<>> >>
                         ELSE << <<>>, <<>> >>
              /\ planner_user = user
              /\ planner_tasks = Planner_init_tasks(tasks_arg, 3)
              /\ planner_strategy = strategy
              /\ last = Call("Planner", <<user, strategy, tasks_arg>>)
    /\ ret = None
    /\ err = NoError
    /\ calls = <<>>

\* A pending task as main.py and the focus page build them, with a
\* deadline or without one; the planner's operations of this specification
\* tell tasks apart by that and by their identity.
ConstructTask ==
    /\ Len(tasks) < MaxTasks
    /\ \E deadline \in {None, Some(1)} :
          NewTask(Len(tasks) + 1, 1, "Finish AI homework", deadline, 0, "pending")

Next ==
    \/ ConstructTask
    \/ \E new_user \in UserRefs : SetUser(new_user)
    \/ GetStrategy
    \/ \E new_strategy \in StrategyArgs : SetStrategy(new_strategy)
    \/ \E task \in TaskRefs : Len(PlannerList) < MaxLen /\ AddTask(task)
    \/ \E task \in TaskRefs : RemoveTask(task)
    \/ ShowStats
    \/ \E by_status \in StatusInputs : FilterTasks(by_status)
    \/ \E by_deadline \in BOOLEAN : SortTasks(by_deadline)
    \/ ExecuteStrategy

Spec == Init /\ [][Next]_vars

----------------------------------------------------------------------------
(* filter_tasks and sort_tasks on drawn task lists: SpecFilter, SpecSort. *)

SeqsUpTo(S, n) == UNION {[1..k -> S] : k \in 0..n}

\* A planner holding any list of up to MaxLen references to MaxTasks tasks.
DrawnPlanner ==
    /\ users = InitUsers
    /\ NoFocusPage
    /\ \E l \in SeqsUpTo(1..MaxTasks, MaxLen) : lists = << <<>>, <<>>, l >>
    /\ planner_user = 1
    /\ planner_tasks = Some(3)
    /\ planner_strategy = Some(PomodoroStrategy)
    /\ last = Call("init", <<>>)
    /\ ret = None
    /\ err = NoError
    /\ calls = <<>>

\* filter_tasks reads the status of a task and nothing else of it.
FilterInit ==
    /\ tasks \in [1..MaxTasks ->
                    {Task_init(1, 1, "Finish AI homework", None, 0, status) :
                        status \in StatusInputs}]
    /\ DrawnPlanner

FilterArgs == StatusInputs \cup {"", "archived"}

FilterNext == \E by_status \in FilterArgs : FilterTasks(by_status)

SpecFilter == FilterInit /\ [][FilterNext]_vars

\* sort_tasks reads the deadline and the priority of a task.
SortInit ==
    /\ tasks \in [1..MaxTasks ->
                    {Task_init(1, priority, "Finish AI homework", deadline, 0, "pending") :
                        priority \in Priorities, deadline \in Deadlines}]
    /\ DrawnPlanner

SortNext == \E by_deadline \in BOOLEAN : SortTasks(by_deadline)

SpecSort == SortInit /\ [][SortNext]_vars

----------------------------------------------------------------------------
(* Claims about the Planner's strategy, checked under Spec. *)

\* C5: whenever a strategy is set, one call to execute_strategy() invokes
\* start_session exactly once and then take_break exactly once on the
\* currently injected strategy, in that order, and does not fail, for each
\* of the three variants.
C5_ExecuteSessionThenBreak ==
    [][(last'.op = "execute_strategy" /\ planner_strategy # None)
       => (/\ err' = NoError
           /\ Len(calls') = 2
           /\ calls'[1].method = "start_session"
           /\ calls'[2].method = "take_break"
           /\ calls'[1].obj = planner_strategy[1]
           /\ calls'[2].obj = planner_strategy[1]
           /\ planner_strategy[1].cls
                \in {"PomodoroStrategy", "DeepWorkStrategy", "BalancedStrategy"})]_vars

\* execute_strategy() has run a BalancedStrategy: a 45 minute session, then
\* a 10 minute break.
C5_Witness ==
    /\ last.op = "execute_strategy"
    /\ planner_strategy # None
    /\ planner_strategy[1].cls = "BalancedStrategy"
    /\ err = NoError
    /\ Len(calls) = 2
    /\ calls[1].minutes = 45
    /\ calls[2].minutes = 10

\* C6: when the Planner has no strategy (constructed with none, or cleared
\* through set_strategy), execute_strategy() fails with the error for a
\* missing strategy, invokes neither start_session nor take_break, and
\* leaves the Planner's user, tasks and strategy unchanged.
C6_ExecuteWithoutStrategyFails ==
    [][(last'.op = "execute_strategy" /\ planner_strategy = None)
       => (/\ err' = ValueError("No study strategy has been set for this planner.")
           /\ calls' = <<>>
           /\ UNCHANGED <<focus_vars, planner_user, planner_tasks, planner_strategy,
                          lists, tasks, users>>)]_vars

\* execute_strategy() has failed on a planner that holds tasks and no
\* strategy.
C6_Witness ==
    /\ last.op = "execute_strategy"
    /\ planner_strategy = None
    /\ err.type = "ValueError"
    /\ PlannerList # <<>>

\* C7, as claimed: in every state reachable after a Planner is constructed,
\* by any sequence of its operations, the Planner's task list and its
\* active strategy are both non-null.
C7_NeverNull == planner_tasks # None /\ planner_strategy # None

\* C7, amended: the task list is never null, and the strategy is null only
\* when None was given for it: at construction, or by the set_strategy(None)
\* that made it null.  No other operation makes it null.
C7_NullOnlyWhenGiven ==
    /\ (planner_strategy = None => (last.op = "Planner" /\ last.args[2] = None))
    /\ [](planner_tasks # None)
    /\ [][(planner_strategy' = None /\ planner_strategy # None)
          => (last'.op = "set_strategy" /\ last'.args[1] = None)]_vars

\* set_strategy(None) has cleared the strategy of a planner that holds tasks.
C7_Witness ==
    /\ last.op = "set_strategy"
    /\ last.args[1] = None
    /\ planner_strategy = None
    /\ planner_tasks # None
    /\ PlannerList # <<>>

\* C8: after set_strategy(s), get_strategy() returns s and the next
\* execute_strategy() runs start_session and take_break of s and of no
\* strategy injected before; set_strategy leaves the Planner's user and task
\* list unchanged.  The strategy changes by set_strategy alone, so "the
\* next" holds whatever is called in between.
C8_StrategySwitch ==
    [][/\ last'.op = "set_strategy" =>
            /\ planner_strategy' = last'.args[1]
            /\ UNCHANGED <<focus_vars, planner_user, planner_tasks, lists, tasks, users>>
       /\ last'.op # "set_strategy" => planner_strategy' = planner_strategy
       /\ last'.op = "get_strategy" => ret' = planner_strategy
       /\ (last'.op = "execute_strategy" /\ planner_strategy # None) =>
            /\ calls' # <<>>
            /\ \A i \in 1..Len(calls') : calls'[i].obj = planner_strategy[1]
       /\ (last.op = "set_strategy" /\ last.args[1] # None
             /\ last'.op = "execute_strategy") =>
            /\ calls' # <<>>
            /\ \A i \in 1..Len(calls') : calls'[i].obj = last.args[1][1]
       /\ (last.op = "set_strategy" /\ last'.op = "get_strategy") =>
            ret' = last.args[1]]_vars

\* set_strategy has replaced the strategy the planner was constructed with,
\* on a planner that holds tasks.
C8_Witness ==
    /\ last.op = "set_strategy"
    /\ last.args[1] = Some(DeepWorkStrategy)
    /\ planner_strategy = Some(DeepWorkStrategy)
    /\ PlannerList # <<>>

----------------------------------------------------------------------------
(* Claims about filter_tasks and sort_tasks. *)

\* The positions of l whose task has the status.
Matching(l, status) == {i \in 1..Len(l) : tasks[l[i]].status = status}

\* C9: for every task list and every status argument s, filter_tasks(s)
\* returns exactly the tasks whose status equals s, in their original
\* relative order; it returns an empty sequence, never an error, when none
\* match, including when s is not a recognized status.  (SpecFilter)
C9_FilterExactInOrder ==
    last.op = "filter_tasks" =>
        LET l == PlannerList
            M == Matching(l, last.args[1])
        IN  /\ err = NoError
            /\ Len(ret) = Cardinality(M)
            /\ \A k \in 1..Len(ret) :
                  \E i \in M : /\ Cardinality({j \in M : j <= i}) = k
                               /\ ret[k] = l[i]
            /\ (M = {} => ret = <<>>)

\* filter_tasks("done") has kept both entries of the done task, in place,
\* and dropped the entry between them.
C9_Witness ==
    /\ last.op = "filter_tasks"
    /\ last.args[1] = "done"
    /\ PlannerList = <<2, 1, 2>>
    /\ tasks[2].status = "done"
    /\ tasks[1].status = "pending"
    /\ ret = <<2, 2>>

\* ret is l reordered by pi, ascending in the deadline, entries of equal
\* deadline in their order in l.
IsStableByDeadline(result, l, pi) ==
    /\ \A i \in 1..Len(l) : result[i] = l[pi[i]]
    /\ \A i \in 1..Len(l) : \A j \in (i + 1)..Len(l) :
          LET a == tasks[l[pi[i]]].deadline
              b == tasks[l[pi[j]]].deadline
          IN  /\ a # None
              /\ b # None
              /\ (a[1] < b[1] \/ (a[1] = b[1] /\ pi[i] < pi[j]))

IndexPermutations(n) ==
    {pi \in [1..n -> 1..n] : \A i \in 1..n : \A j \in 1..n : pi[i] = pi[j] => i = j}

\* C10: sort_tasks(by_deadline=True) returns a permutation of the task list
\* in ascending deadline order and is stable: any two tasks with equal
\* deadlines appear in the output in the same relative order as in the
\* planner's list.  It returns whenever every task of the list has a
\* deadline.  (SpecSort)
C10_SortByDeadlineStable ==
    (last.op = "sort_tasks" /\ last.args[1] = TRUE) =>
        LET l == PlannerList
        IN  /\ (\A i \in 1..Len(l) : tasks[l[i]].deadline # None) => err = NoError
            /\ err = NoError =>
                  /\ Len(ret) = Len(l)
                  /\ \E pi \in IndexPermutations(Len(l)) : IsStableByDeadline(ret, l, pi)

\* sort_tasks(True) on two different tasks of equal deadline, one of them
\* twice in the list: the entries keep their order.
C10_Witness ==
    /\ last.op = "sort_tasks"
    /\ last.args[1] = TRUE
    /\ err = NoError
    /\ PlannerList = <<2, 1, 2>>
    /\ tasks[1].deadline = tasks[2].deadline
    /\ tasks[1] # tasks[2]
    /\ ret = <<2, 1, 2>>

----------------------------------------------------------------------------
(* sort_tasks by priority on drawn lists of three tasks: SpecSortPriority. *)

MaxSortTasks == 3

\* Tasks as main.py builds them, with the priorities 1..MaxSortTasks in any
\* assignment, and a planner holding any list of them.
SortPriorityInit ==
    /\ tasks \in [1..MaxSortTasks ->
                    {Task_init(1, priority, "Finish AI homework", Some(1), 0, "pending") :
                        priority \in 1..MaxSortTasks}]
    /\ users = InitUsers
    /\ NoFocusPage
    /\ \E l \in SeqsUpTo(1..MaxSortTasks, MaxSortTasks) : lists = << <<>>, <<>>, l >>
    /\ planner_user = 1
    /\ planner_tasks = Some(3)
    /\ planner_strategy = Some(PomodoroStrategy)
    /\ last = Call("init", <<>>)
    /\ ret = None
    /\ err = NoError
    /\ calls = <<>>

SortPriorityNext == SortTasks(FALSE)

SpecSortPriority == SortPriorityInit /\ [][SortPriorityNext]_vars

\* result is l reordered by pi, ascending in the priority, entries of equal
\* priority in their order in l.
IsStableByPriority(result, l, pi) ==
    /\ \A i \in 1..Len(l) : result[i] = l[pi[i]]
    /\ \A i \in 1..Len(l) : \A j \in (i + 1)..Len(l) :
          LET a == tasks[l[pi[i]]].priority
              b == tasks[l[pi[j]]].priority
          IN  a < b \/ (a = b /\ pi[i] < pi[j])

\* C11: sort_tasks(by_deadline=False) returns a permutation of the task list
\* in ascending priority order (lower number first), tasks of equal priority
\* in their original relative order; three tasks with the priorities 1, 2
\* and 3 in any order come back with the priorities 1, 2, 3.
\* (SpecSortPriority)
C11_SortByPriorityStable ==
    (last.op = "sort_tasks" /\ last.args[1] = FALSE) =>
        LET l == PlannerList
        IN  /\ err = NoError
            /\ Len(ret) = Len(l)
            /\ \E pi \in IndexPermutations(Len(l)) : IsStableByPriority(ret, l, pi)
            /\ (Len(l) = 3 /\ {tasks[l[i]].priority : i \in 1..3} = {1, 2, 3})
                  => [i \in 1..3 |-> tasks[ret[i]].priority] = <<1, 2, 3>>

\* sort_tasks(False) has put three tasks given with the priorities 3, 1, 2
\* into the order 1, 2, 3.
C11_Witness ==
    /\ last.op = "sort_tasks"
    /\ last.args[1] = FALSE
    /\ err = NoError
    /\ Len(PlannerList) = 3
    /\ [i \in 1..3 |-> tasks[PlannerList[i]].priority] = <<3, 1, 2>>
    /\ [i \in 1..3 |-> tasks[ret[i]].priority] = <<1, 2, 3>>

\* C12: sort_tasks(by_deadline=True) succeeds on every task list, lists
\* that mix tasks with a deadline and tasks without one included: the call
\* does not fail, and the tasks without a deadline come after all the tasks
\* that have one.  (SpecSort)
C12_SortByDeadlineTotal ==
    (last.op = "sort_tasks" /\ last.args[1] = TRUE) =>
        /\ err = NoError
        /\ Len(ret) = Len(PlannerList)
        /\ \A i \in 1..Len(ret) : \A j \in (i + 1)..Len(ret) :
              tasks[ret[i]].deadline = None => tasks[ret[j]].deadline = None

----------------------------------------------------------------------------
(* show_stats on drawn task lists whose tasks change status: SpecStats. *)

StatsNext ==
    \/ ShowStats
    \/ \E r \in TaskRefs : MarkDone(r)
    \/ \E r \in TaskRefs, new_status \in StatusInputs : SetStatus(r, new_status)

SpecStats == FilterInit /\ [][StatsNext]_vars

\* C13: show_stats() returns done = the number of tasks in the planner's
\* list whose status is "done" and pending = the number whose status is
\* "pending"; on an empty list it returns done 0 and pending 0; it reports
\* no other key.  (SpecStats)
C13_StatsCounts ==
    last.op = "show_stats" =>
        /\ err = NoError
        /\ DOMAIN ret = {"done", "pending"}
        /\ ret.done = Cardinality(Matching(PlannerList, "done"))
        /\ ret.pending = Cardinality(Matching(PlannerList, "pending"))
        /\ (PlannerList = <<>> => ret = [done |-> 0, pending |-> 0])

\* show_stats() on three entries, two done and one pending:
\* {done: 2, pending: 1}.
C13_Witness ==
    /\ last.op = "show_stats"
    /\ Len(PlannerList) = 3
    /\ Cardinality(Matching(PlannerList, "done")) = 2
    /\ Cardinality(Matching(PlannerList, "pending")) = 1
    /\ ret = [done |-> 2, pending |-> 1]

----------------------------------------------------------------------------
(* core/user.py *)

MaxUserLen == 2

\* The list object behind User.__tasks.
UserList(u) == lists[users[u].tasks]

\* An add_task that skips a task the list already holds.
User_add_task_unique(l, new_task) ==
    IF list_contains(l, new_task) THEN l ELSE Append(l, new_task)

\* self.__tasks.append(new_task)
User_add_task(l, new_task) == Append(l, new_task)

\* if task in self.__tasks: self.__tasks.remove(task)
User_remove_task(l, task) ==
    IF list_contains(l, task) THEN list_remove(l, task) ELSE l

\* A view_tasks that hands out the internal list.
User_view_tasks_alias(u) == [lists |-> lists, ret |-> Some(users[u].tasks)]

\* return list(self.__tasks): a new list object with the same entries.
User_view_tasks(u) ==
    [lists |-> Append(lists, UserList(u)), ret |-> Some(Len(lists) + 1)]

UserGetTasks(u) ==
    /\ last' = Call("User.get_tasks", <<u>>)
    /\ ret' = Some(users[u].tasks)
    /\ err' = NoError /\ calls' = <<>>
    /\ UNCHANGED <<focus_vars, heap_vars, planner_vars>>

UserAddTask(u, new_task) ==
    /\ lists' = [lists EXCEPT ![users[u].tasks] = User_add_task(@, new_task)]
    /\ last' = Call("User.add_task", <<u, new_task>>)
    /\ ret' = None /\ err' = NoError /\ calls' = <<>>
    /\ UNCHANGED <<focus_vars, tasks, users, planner_vars>>

UserRemoveTask(u, task) ==
    /\ lists' = [lists EXCEPT ![users[u].tasks] = User_remove_task(@, task)]
    /\ last' = Call("User.remove_task", <<u, task>>)
    /\ ret' = None /\ err' = NoError /\ calls' = <<>>
    /\ UNCHANGED <<focus_vars, tasks, users, planner_vars>>

ViewTasks(u) ==
    LET out == User_view_tasks(u)
    IN  /\ lists' = out.lists
        /\ last' = Call("User.view_tasks", <<u>>)
        /\ ret' = out.ret
        /\ err' = NoError /\ calls' = <<>>
        /\ UNCHANGED <<focus_vars, tasks, users, planner_vars>>

\* Planner.get_tasks: the planner's own list object.
GetTasks ==
    /\ last' = Call("get_tasks", <<>>)
    /\ ret' = planner_tasks
    /\ err' = NoError /\ calls' = <<>>
    /\ UNCHANGED <<focus_vars, heap_vars, planner_vars>>

\* What a caller does with a list object it was handed: l.append(task),
\* l.remove(task), which raises ValueError for a task that is not in l, and
\* l.reverse().
ListAppend(l, task) ==
    /\ lists' = [lists EXCEPT ![l] = Append(@, task)]
    /\ last' = Call("list.append", <<l, task>>)
    /\ ret' = None /\ err' = NoError /\ calls' = <<>>
    /\ UNCHANGED <<focus_vars, tasks, users, planner_vars>>

ListRemove(l, task) ==
    /\ lists' = IF list_contains(lists[l], task)
                THEN [lists EXCEPT ![l] = list_remove(@, task)]
                ELSE lists
    /\ last' = Call("list.remove", <<l, task>>)
    /\ ret' = None
    /\ err' = IF list_contains(lists[l], task) THEN NoError
              ELSE ValueError("list.remove(x): x not in list")
    /\ calls' = <<>>
    /\ UNCHANGED <<focus_vars, tasks, users, planner_vars>>

ListReverse(l) ==
    /\ lists' = [lists EXCEPT ![l] = [i \in 1..Len(@) |-> @[Len(@) + 1 - i]]]
    /\ last' = Call("list.reverse", <<l>>)
    /\ ret' = None /\ err' = NoError /\ calls' = <<>>
    /\ UNCHANGED <<focus_vars, tasks, users, planner_vars>>

----------------------------------------------------------------------------
(* A User, its task list and one snapshot of it: SpecUser. *)

\* MaxTasks pending tasks, told apart by their id.
DistinctTasks ==
    [i \in 1..MaxTasks |-> Task_init(i, 1, "Finish AI homework", None, 0, "pending")]

\* The users exist, with their empty lists; the planner was given the list
\* of its user.
UserInit ==
    /\ tasks = DistinctTasks
    /\ lists = << <<>>, <<>> >>
    /\ users = InitUsers
    /\ NoFocusPage
    /\ planner_user = 1
    /\ planner_tasks = Some(InitUsers[1].tasks)
    /\ planner_strategy = Some(PomodoroStrategy)
    /\ last = Call("User", <<InitUsers[1].username, InitUsers[1].email>>)
    /\ ret = Some(1)
    /\ err = NoError
    /\ calls = <<>>

\* The list objects the caller holds: the internal list, which get_tasks
\* hands out, and the lists view_tasks has returned.
HeldLists == {users[planner_user].tasks} \cup ((Len(users) + 1)..Len(lists))

\* One user and one snapshot are followed.
UserNext ==
    \/ \E task \in TaskRefs :
          Len(UserList(planner_user)) < MaxUserLen /\ UserAddTask(planner_user, task)
    \/ \E task \in TaskRefs : UserRemoveTask(planner_user, task)
    \/ UserGetTasks(planner_user)
    \/ Len(lists) = Len(users) /\ ViewTasks(planner_user)
    \/ \E l \in HeldLists, task \in TaskRefs :
          Len(lists[l]) < MaxUserLen /\ ListAppend(l, task)
    \/ \E l \in HeldLists, task \in TaskRefs : ListRemove(l, task)
    \/ \E l \in HeldLists : ListReverse(l)

SpecUser == UserInit /\ [][UserNext]_vars

\* The list objects that are the internal list of a user.
InternalLists == {users[v].tasks : v \in UserRefs}

\* C14: view_tasks() returns a snapshot: a list object of its own with the
\* entries of the user's list.  Adding to, removing from or reordering a
\* snapshot never changes the internal list of a user, and a later add_task
\* or remove_task on the user does not change a snapshot already returned.
\* (SpecUser)
C14_ViewTasksSnapshot ==
    [][/\ last'.op = "User.view_tasks" =>
            /\ ret' # None
            /\ ret'[1] \notin InternalLists
            /\ ret'[1] \notin 1..Len(lists)
            /\ lists'[ret'[1]] = UserList(last'.args[1])
            /\ \A l \in 1..Len(lists) : lists'[l] = lists[l]
       /\ \A s \in (1..Len(lists)) \ InternalLists :
            /\ (/\ last'.op \in {"list.append", "list.remove", "list.reverse"}
                /\ last'.args[1] = s)
                  => \A v \in UserRefs : lists'[users[v].tasks] = UserList(v)
            /\ last'.op \in {"User.add_task", "User.remove_task"}
                  => lists'[s] = lists[s]]_vars

\* A snapshot of [1, 2] was reversed by the caller, and the user then
\* removed task 2: the user's list is [1], the snapshot [2, 1].
C14_Witness ==
    /\ last.op = "User.remove_task"
    /\ Len(lists) = 3
    /\ lists[3] = <<2, 1>>
    /\ UserList(1) = <<1>>

----------------------------------------------------------------------------
(* A Planner and its User, each with its add_task and remove_task:         *)
(* SpecShared.                                                             *)

\* Planner(user, strategy, tasks): tasks is left out (None), is the list a
\* user's get_tasks() returned, or is a list the caller made.  List 3 is
\* the empty list that is new at the construction: the [] of the
\* constructor, or the caller's.
SharedInit ==
    /\ tasks = DistinctTasks
    /\ users = InitUsers
    /\ NoFocusPage
    /\ lists = << <<>>, <<>>, <<>> >>
    /\ \E user \in 1..2, tasks_arg \in {None} \cup {Some(l) : l \in 1..3} :
          /\ planner_user = user
          /\ planner_tasks = Planner_init_tasks(tasks_arg, 3)
          /\ last = Call("Planner", <<user, Some(PomodoroStrategy), tasks_arg>>)
    /\ planner_strategy = Some(PomodoroStrategy)
    /\ ret = None
    /\ err = NoError
    /\ calls = <<>>

SharedNext ==
    \/ \E task \in TaskRefs :
          Len(UserList(planner_user)) < MaxUserLen /\ UserAddTask(planner_user, task)
    \/ \E task \in TaskRefs : UserRemoveTask(planner_user, task)
    \/ UserGetTasks(planner_user)
    \/ \E task \in TaskRefs : Len(PlannerList) < MaxUserLen /\ AddTask(task)
    \/ \E task \in TaskRefs : RemoveTask(task)
    \/ GetTasks

SpecShared == SharedInit /\ [][SharedNext]_vars

\* No entry of l is a task with the fields of task t.
NoEqualEntry(l, t) == \A i \in 1..Len(l) : tasks[l[i]] # tasks[t]

\* C15: for User and for Planner, add_task(t) appends t at the end of the
\* list, also when t is already in it: the length grows by one and the
\* entries that were there keep their places.  remove_task(t) for a task
\* that is not in the list raises no error and leaves the list, and every
\* other list, unchanged.  (SpecShared)
C15_AddAppendsRemoveAbsentNoop ==
    [][/\ last'.op = "User.add_task" =>
            /\ err' = NoError
            /\ lists'[users[last'.args[1]].tasks]
                 = UserList(last'.args[1]) \o <<last'.args[2]>>
       /\ last'.op = "add_task" =>
            /\ err' = NoError
            /\ lists'[planner_tasks[1]] = PlannerList \o <<last'.args[1]>>
       /\ (/\ last'.op = "User.remove_task"
           /\ NoEqualEntry(UserList(last'.args[1]), last'.args[2])) =>
            /\ err' = NoError
            /\ lists' = lists
       /\ (/\ last'.op = "remove_task"
           /\ NoEqualEntry(PlannerList, last'.args[1])) =>
            /\ err' = NoError
            /\ lists' = lists]_vars

\* User.add_task(1) on a list that held task 1 already: [1, 1].
C15_Witness ==
    /\ last.op = "User.add_task"
    /\ last.args[2] = 1
    /\ UserList(last.args[1]) = <<1, 1>>

\* C20, as claimed: the Planner's task list is independent of its User's
\* task list: however the Planner was constructed, tasks added to or
\* removed from the Planner never change what User.get_tasks() returns, and
\* tasks added to or removed from the User never change what
\* Planner.get_tasks() returns.  (SpecShared)
C20_ListsIndependent ==
    [][/\ last'.op \in {"add_task", "remove_task"}
            => lists'[users[planner_user].tasks] = UserList(planner_user)
       /\ (last'.op \in {"User.add_task", "User.remove_task"}
             /\ last'.args[1] = planner_user)
            => lists'[planner_tasks[1]] = PlannerList]_vars

\* C20, amended: the two lists are independent unless the Planner was
\* constructed with the list its User's get_tasks() returns.  The Planner
\* holds the user's list exactly when it was given it; which list each of
\* them holds never changes; when the lists are two, adding to or removing
\* from one never changes the other; when they are one, a task added
\* through the Planner is at the end of what User.get_tasks() returns, and
\* the other way round.  (SpecShared)
C20_IndependentUnlessShared ==
    /\ [](last.op = "Planner" =>
            (planner_tasks = Some(users[planner_user].tasks)
               <=> last.args[3] = Some(users[last.args[1]].tasks)))
    /\ [][UNCHANGED <<focus_vars, planner_tasks, planner_user, users>>]_vars
    /\ [][planner_tasks # Some(users[planner_user].tasks) =>
            /\ last'.op \in {"add_task", "remove_task"}
                 => lists'[users[planner_user].tasks] = UserList(planner_user)
            /\ last'.op \in {"User.add_task", "User.remove_task"}
                 => lists'[planner_tasks[1]] = PlannerList]_vars
    /\ [][planner_tasks = Some(users[planner_user].tasks) =>
            /\ last'.op = "add_task"
                 => lists'[users[planner_user].tasks]
                      = UserList(planner_user) \o <<last'.args[1]>>
            /\ last'.op = "User.add_task"
                 => lists'[planner_tasks[1]] = PlannerList \o <<last'.args[2]>>]_vars

\* A Planner constructed without a list holds [1, 2] after its add_task(2)
\* while its user holds [2].
C20_Witness ==
    /\ last.op = "add_task"
    /\ planner_tasks # Some(users[planner_user].tasks)
    /\ PlannerList = <<1, 2>>
    /\ UserList(planner_user) = <<2>>

----------------------------------------------------------------------------
(* User.remove_task and add_task on drawn lists of drawn tasks: SpecRemove. *)

\* MaxTasks Task objects, constructed one by one, some of them with the
\* same fields, and a user holding any list of them.
RemoveInit ==
    /\ tasks \in [1..MaxTasks ->
                    {Task_init(taskid, 1, "Finish AI homework", None, 0, "pending") :
                        taskid \in TaskIds}]
    /\ users = InitUsers
    /\ NoFocusPage
    /\ \E l \in SeqsUpTo(1..MaxTasks, MaxLen) : lists = << l, <<>> >>
    /\ planner_user = 1
    /\ planner_tasks = Some(InitUsers[1].tasks)
    /\ planner_strategy = Some(PomodoroStrategy)
    /\ last = Call("init", <<>>)
    /\ ret = None
    /\ err = NoError
    /\ calls = <<>>

RemoveNext ==
    \/ \E task \in TaskRefs : UserRemoveTask(planner_user, task)
    \/ \E task \in TaskRefs :
          Len(UserList(planner_user)) < MaxLen /\ UserAddTask(planner_user, task)

SpecRemove == RemoveInit /\ [][RemoveNext]_vars

\* C16: User.remove_task(t) removes by value equality: if the list holds a
\* task whose fields (id, priority, title, deadline, duration, status)
\* equal those of t, the call removes one such entry, also when t is a Task
\* object constructed separately.  (SpecRemove)
C16_RemoveByValue ==
    [][last'.op = "User.remove_task" =>
          LET l == UserList(last'.args[1])
              t == last'.args[2]
          IN  ~NoEqualEntry(l, t) =>
                 \E i \in 1..Len(l) :
                    /\ tasks[l[i]] = tasks[t]
                    /\ lists'[users[last'.args[1]].tasks]
                         = SubSeq(l, 1, i - 1) \o SubSeq(l, i + 1, Len(l))]_vars

----------------------------------------------------------------------------
(* More claims about Task, checked under SpecTask. *)

\* C17: from any status, mark_done() makes get_status() return "done" and
\* does not fail, and a mark_done() on a task that is done changes nothing;
\* reschedule(d) makes get_deadline() return exactly d, for every d, earlier
\* and later than the deadline it replaces, and leaves the status and every
\* other field of the task unchanged.
C17_TaskRoundTrips ==
    [][/\ last'.op = "mark_done" =>
            LET r == last'.args[1]
            IN  /\ err' = NoError
                /\ Task_get_status(tasks'[r]) = "done"
                /\ Task_get_status(tasks[r]) = "done" => tasks' = tasks
       /\ last'.op = "reschedule" =>
            LET r == last'.args[1]
                d == last'.args[2]
            IN  /\ err' = NoError
                /\ Task_get_deadline(tasks'[r]) = d
                /\ \A f \in {"taskid", "priority", "title", "duration", "status"} :
                      tasks'[r][f] = tasks[r][f]]_vars

\* reschedule has given a done task the earliest deadline.
C17_Witness ==
    /\ last.op = "reschedule"
    /\ last.args[2] = Some(1)
    /\ tasks[last.args[1]].deadline = Some(1)
    /\ tasks[last.args[1]].status = "done"

----------------------------------------------------------------------------
(* A BalancedStrategy and calls of its methods: SpecBalanced. *)

MaxMinutes == 3

\* BalancedStrategy() and BalancedStrategy(short, long, break).
BalancedInstances ==
    {BalancedStrategy}
    \cup {BalancedStrategy_init(short_session, long_session, break_duration) :
            short_session \in 1..MaxMinutes, long_session \in 1..MaxMinutes,
            break_duration \in 1..MaxMinutes}

\* The task_complexity given: the three documented values and others.
Complexities == {"light", "medium", "deep", "Light", "DEEP", "heavy", ""}

\* The strategy object is the one a planner holds.
BalancedInit ==
    /\ tasks = <<>>
    /\ lists = << <<>>, <<>> >>
    /\ users = InitUsers
    /\ NoFocusPage
    /\ planner_user = 1
    /\ planner_tasks = Some(1)
    /\ planner_strategy \in {Some(s) : s \in BalancedInstances}
    /\ last = Call("BalancedStrategy", <<>>)
    /\ ret = None
    /\ err = NoError
    /\ calls = <<>>

\* strategy.start_session() and strategy.start_session(task_complexity):
\* arg is None when the argument is left out, and the default applies.
BalancedStartSession(arg) ==
    LET self == planner_strategy[1]
        task_complexity == IF arg = None THEN "medium" ELSE arg[1]
    IN  /\ last' = Call("start_session", <<arg>>)
        /\ calls' = << Invocation(self, "start_session",
                                  BalancedStrategy_start_session(self, task_complexity)) >>
        /\ ret' = None /\ err' = NoError
        /\ UNCHANGED <<focus_vars, heap_vars, planner_vars>>

BalancedTakeBreak ==
    LET self == planner_strategy[1]
    IN  /\ last' = Call("take_break", <<>>)
        /\ calls' = << Invocation(self, "take_break", take_break(self)) >>
        /\ ret' = None /\ err' = NoError
        /\ UNCHANGED <<focus_vars, heap_vars, planner_vars>>

BalancedNext ==
    \/ \E arg \in {None} \cup {Some(c) : c \in Complexities} : BalancedStartSession(arg)
    \/ BalancedTakeBreak

SpecBalanced == BalancedInit /\ [][BalancedNext]_vars

\* C18: BalancedStrategy.start_session(task_complexity) plans a session of
\* short_session minutes for "light", of long_session minutes for "deep",
\* and of short_session + 15 minutes for every other value, the default
\* "medium" included: 30, 60 and 45 minutes with default construction.
\* (SpecBalanced)
C18_BalancedSessionLength ==
    last.op = "start_session" =>
        LET self == planner_strategy[1]
            given == last.args[1]
            minutes == calls[1].minutes
        IN  /\ err = NoError
            /\ Len(calls) = 1
            /\ given = Some("light") => minutes = self.short_session
            /\ given = Some("deep") => minutes = self.long_session
            /\ given \notin {Some("light"), Some("deep")}
                  => minutes = self.short_session + 15
            /\ self = [cls |-> "BalancedStrategy", short_session |-> 30,
                       long_session |-> 60, break_duration |-> 10]
                  => minutes = (CASE given = Some("light") -> 30
                                  [] given = Some("deep") -> 60
                                  [] OTHER -> 45)

\* start_session() without an argument on BalancedStrategy(): 45 minutes.
C18_Witness ==
    /\ last.op = "start_session"
    /\ last.args[1] = None
    /\ planner_strategy = Some(BalancedStrategy)
    /\ calls[1].minutes = 45

----------------------------------------------------------------------------
(* The operations of the core that can fail, on a planner that holds       *)
(* tasks: SpecFail.                                                        *)

\* As in main.py: the tasks are constructed, with any deadlines and valid
\* statuses, and the planner is given a list of them, in order; here the
\* user holds them too.  The strategy is one of the factory's, or None.
FailInit ==
    /\ tasks \in [1..MaxTasks ->
                    {Task_init(1, 1, "Finish AI homework", deadline, 0, status) :
                        deadline \in Deadlines, status \in ValidStatuses}]
    /\ users = InitUsers
    /\ NoFocusPage
    /\ lists = << [i \in 1..MaxTasks |-> i], <<>>, [i \in 1..MaxTasks |-> i] >>
    /\ planner_user = 1
    /\ planner_tasks = Some(3)
    /\ planner_strategy \in StrategyArgs
    /\ last = Call("Planner", <<1, planner_strategy, Some(3)>>)
    /\ ret = None
    /\ err = NoError
    /\ calls = <<>>

\* Names for the factory: a token, a label of the GUI, the empty string.
FailNames == {Str_pomodoro, <<"D", "e", "e", "p", " ", "W", "o", "r", "k">>, <<>>}

FailNext ==
    \/ \E r \in TaskRefs, new_status \in StatusInputs : SetStatus(r, new_status)
    \/ \E strategy_name \in FailNames : Create(strategy_name)
    \/ ExecuteStrategy
    \/ \E by_deadline \in BOOLEAN : SortTasks(by_deadline)

SpecFail == FailInit /\ [][FailNext]_vars

\* C19: no partial failure in the core: every call of Task.set_status,
\* StrategyFactory.create, Planner.execute_strategy and Planner.sort_tasks
\* that fails leaves all fields of all tasks, the task lists of the Planner
\* and of the Users, and the Planner's user and strategy exactly as they
\* were before the call; it returns nothing and has invoked no method of
\* the strategy.  (SpecFail)
C19_NoPartialFailure ==
    [][(/\ last'.op \in {"set_status", "create", "execute_strategy", "sort_tasks"}
        /\ err' # NoError)
       => (/\ tasks' = tasks
           /\ lists' = lists
           /\ users' = users
           /\ planner_user' = planner_user
           /\ planner_tasks' = planner_tasks
           /\ planner_strategy' = planner_strategy
           /\ ret' = None
           /\ calls' = <<>>)]_vars

\* set_status("in_progress") has failed on a done task of a planner that
\* holds it, and the task is still done.
C19_Witness ==
    /\ last.op = "set_status"
    /\ last.args[2] = "in_progress"
    /\ err.type = "ValueError"
    /\ tasks[last.args[1]].status = "done"
    /\ list_contains(PlannerList, last.args[1])

----------------------------------------------------------------------------
(* database.py: the SQLite database behind DatabaseManager.               *)
(*                                                                         *)
(* `db` is a record of tables, a table a sequence of rows in insertion     *)
(* order.  No row of users is ever deleted, so the AUTOINCREMENT id of a   *)
(* new row is the number of rows plus one.  The columns kept are the ones  *)
(* the operations below read or write.  An instant of the wall clock is a  *)
(* natural number counting days: the time of day only orders the readings  *)
(* of the clock, and no operation computes with it.                        *)

MaxDay == 1

Instants == 0..MaxDay

\* initialize_database on a new file: every table exists and is empty.
DatabaseManager_initialize_database ==
    [users |-> <<>>, user_stats |-> <<>>, tasks |-> <<>>,
     sessions |-> <<>>, daily_focus |-> <<>>]

\* INSERT INTO users (username, email): the other columns take their
\* defaults.
users_row(id, username, email) ==
    [id |-> id, username |-> username, email |-> email,
     streak_days |-> 0, total_focus_minutes |-> 0, last_active_date |-> None]

\* INSERT INTO user_stats (user_id).  total_focus_hours is kept in
\* sixtieths of an hour.
user_stats_row(user_id) ==
    [user_id |-> user_id, total_focus_hours |-> 0, average_session |-> 0,
     streak |-> 0]

\* SELECT ... FROM users WHERE email = ?  (a NULL email matches no row)
DatabaseManager_get_user_by_email(d, email) ==
    IF email = None THEN <<>>
    ELSE SelectSeq(d.users, LAMBDA r : r.email = Some(email[1]))

\* An add_user that inserts without looking for the email first.
DatabaseManager_add_user_insert(d, username, email) ==
    LET user_id == Len(d.users) + 1
    IN  [db |-> [d EXCEPT !.users = Append(@, users_row(user_id, username, email)),
                          !.user_stats = Append(@, user_stats_row(user_id))],
         ret |-> Some(user_id)]

\* add_user: the database after the call and what the call returns.  Both
\* columns are NOT NULL: an INSERT of a None raises, get_connection rolls
\* back and swallows the exception, and the call returns None.
DatabaseManager_add_user(d, username, email) ==
    LET user == DatabaseManager_get_user_by_email(d, email)
        user_id == Len(d.users) + 1
    IN  IF user # <<>> THEN [db |-> d, ret |-> Some(user[1].id)]
        ELSE IF username = None \/ email = None THEN [db |-> d, ret |-> None]
        ELSE [db |-> [d EXCEPT
                        !.users = Append(@, users_row(user_id, username, email)),
                        !.user_stats = Append(@, user_stats_row(user_id))],
              ret |-> Some(user_id)]

\* INSERT INTO daily_focus ... ON CONFLICT(user_id, date) DO UPDATE
daily_focus_upsert(rows, user_id, today, minutes) ==
    IF \E i \in 1..Len(rows) : rows[i].user_id = user_id /\ rows[i].date = today
    THEN [i \in 1..Len(rows) |->
            IF rows[i].user_id = user_id /\ rows[i].date = today
            THEN [rows[i] EXCEPT !.focus_minutes = @ + minutes]
            ELSE rows[i]]
    ELSE Append(rows, [user_id |-> user_id, date |-> today,
                       focus_minutes |-> minutes])

\* add_focus_minutes, on the day `today` that date.today() reads.
DatabaseManager_add_focus_minutes(d, user_id, minutes, today) ==
    [d EXCEPT
       !.users = [i \in 1..Len(@) |->
                    IF @[i].id = user_id
                    THEN [@[i] EXCEPT !.total_focus_minutes = @ + minutes]
                    ELSE @[i]],
       !.user_stats = [i \in 1..Len(@) |->
                         IF @[i].user_id = user_id
                         THEN [@[i] EXCEPT !.total_focus_hours = @ + minutes]
                         ELSE @[i]],
       !.daily_focus = daily_focus_upsert(@, user_id, today, minutes)]

\* The streak update_streak computes from the row of the user.  The dates
\* it reads back are the ones it stored, so fromisoformat never raises.
streak_after(row, new_date) ==
    IF row.last_active_date # None
    THEN LET diff == new_date - row.last_active_date[1]
         IN  IF diff = 1 THEN row.streak_days + 1
             ELSE IF diff > 1 THEN 1
             ELSE row.streak_days
    ELSE 1

\* update_streak
DatabaseManager_update_streak(d, user_id, new_date) ==
    LET row == SelectSeq(d.users, LAMBDA r : r.id = user_id)
    IN  IF row = <<>> THEN d
        ELSE LET streak == streak_after(row[1], new_date)
             IN  [d EXCEPT
                    !.users = [i \in 1..Len(@) |->
                                 IF @[i].id = user_id
                                 THEN [@[i] EXCEPT !.streak_days = streak,
                                                   !.last_active_date = Some(new_date)]
                                 ELSE @[i]],
                    !.user_stats = [i \in 1..Len(@) |->
                                      IF @[i].user_id = user_id
                                      THEN [@[i] EXCEPT !.streak = streak]
                                      ELSE @[i]]]

RECURSIVE sum_duration(_)
sum_duration(rows) ==
    IF rows = <<>> THEN 0 ELSE Head(rows).duration + sum_duration(Tail(rows))

\* update_average_session: AVG(duration) over the sessions of the user's
\* tasks, 0 when there is none; a session logged with task_id NULL belongs
\* to no task.  The average is kept rounded down to whole minutes.
DatabaseManager_update_average_session(d, user_id) ==
    LET task_ids == {d.tasks[i].id : i \in {j \in 1..Len(d.tasks) :
                                              d.tasks[j].user_id = user_id}}
        rows == SelectSeq(d.sessions,
                          LAMBDA r : r.task_id # None /\ r.task_id[1] \in task_ids)
        avg_duration == IF rows = <<>> THEN 0 ELSE sum_duration(rows) \div Len(rows)
    IN  [d EXCEPT
           !.user_stats = [i \in 1..Len(@) |->
                             IF @[i].user_id = user_id
                             THEN [@[i] EXCEPT !.average_session = avg_duration]
                             ELSE @[i]]]

\* log_session
DatabaseManager_log_session(d, task_id, strategy, start_time, end_time, duration) ==
    [d EXCEPT !.sessions = Append(@, [task_id |-> task_id, strategy |-> strategy,
                                      start_time |-> start_time,
                                      end_time |-> end_time,
                                      duration |-> duration])]

\* One call of add_user on the database.
DbAddUser(username, email) ==
    LET out == DatabaseManager_add_user(db, username, email)
    IN  /\ db' = out.db
        /\ last' = Call("add_user", <<username, email>>)
        /\ ret' = out.ret
        /\ err' = NoError /\ calls' = <<>>
        /\ UNCHANGED <<heap_vars, planner_vars, page, now>>

\* The arguments given to add_user: the names and addresses of the pages,
\* another account, and None.
Usernames == {None, Some("dogukanavci"), Some("guest")}
Emails == {None, Some("dogukan@example.com"), Some("guest@example.com"),
           Some("ada@example.com")}

\* A DatabaseManager on a new database file, and any sequence of add_user.
DbInit ==
    /\ tasks = <<>>
    /\ lists = << <<>>, <<>> >>
    /\ users = InitUsers
    /\ planner_user = 1
    /\ planner_tasks = Some(1)
    /\ planner_strategy = None
    /\ last = Call("DatabaseManager", <<>>)
    /\ ret = None
    /\ err = NoError
    /\ calls = <<>>
    /\ page = None
    /\ db = DatabaseManager_initialize_database
    /\ now = 0

DbNext == \E username \in Usernames, email \in Emails : DbAddUser(username, email)

SpecDb == DbInit /\ [][DbNext]_vars

----------------------------------------------------------------------------
(* Claims about DatabaseManager.add_user, checked under SpecDb. *)

\* The rows of users with this email, and the rows of user_stats of those
\* users.
users_with(d, email) == SelectSeq(d.users, LAMBDA r : r.email = email)
user_stats_with(d, email) ==
    SelectSeq(d.user_stats,
              LAMBDA s : \E i \in 1..Len(d.users) :
                            d.users[i].id = s.user_id /\ d.users[i].email = email)

\* C23: add_user(username, email) is idempotent per email: when a user with
\* that email already exists the call returns the id of that user and
\* inserts nothing, so that after any sequence of add_user calls there is
\* at most one users row and one user_stats row per email.
C23_AddUserIdempotent ==
    /\ [](\A email \in Emails :
             /\ Len(users_with(db, email)) <= 1
             /\ Len(user_stats_with(db, email)) <= 1)
    /\ [][\A email \in Emails :
             (/\ last'.op = "add_user"
              /\ last'.args[2] = email
              /\ users_with(db, email) # <<>>)
             => (/\ ret' = Some(users_with(db, email)[1].id)
                 /\ db' = db)]_vars

\* A second add_user for an email already stored, under another username:
\* it returned the id of the stored row, which kept its username.
C23_Witness ==
    /\ last.op = "add_user"
    /\ Len(db.users) = 2
    /\ \E i \in 1..Len(db.users) :
          /\ Some(db.users[i].email[1]) = last.args[2]
          /\ db.users[i].username # last.args[1]
          /\ ret = Some(db.users[i].id)
          /\ i = 1

----------------------------------------------------------------------------
(* focus_page.py: the FocusPage, its countdown timer and its buttons.      *)
(*                                                                         *)
(* `page` is a record of the attributes of the page: the timer variables,  *)
(* `timer` (whether the QTimer is active), `strategy_combo` (the current   *)
(* index of the combo box) and the four buttons the handlers show and hide *)
(* (TRUE when shown).  The texts of the labels and the progress ring are   *)
(* left out.  The page's Planner is the planner of the planner_ variables. *)
(* A handler is an operation of its own: the model calls it in any state,  *)
(* as a click, the timer or another caller does.                           *)

MaxSessions == 1
MaxTicks == 5
MaxElapsed == 120

SecondsPerMinute == 60

\* strategy_map = {0: "pomodoro", 1: "deepwork", 2: "balanced"}
strategy_map == <<Str_pomodoro, Str_deepwork, Str_balanced>>

\* durations = [25, 90, 45], indexed from 0 in the source
durations == <<25, 90, 45>>

\* The indexes of the items of strategy_combo.
ComboIndexes == 0..2

\* int(x / y) on integers: the quotient truncated toward zero.
int_div(x, y) == IF x >= 0 THEN x \div y ELSE -((-x) \div y)

max(x, y) == IF x >= y THEN x ELSE y

\* The database __init__ leaves behind on a new file: the tables, and the
\* user that add_user inserts because get_user_by_email finds none.
FocusPage_init_db ==
    DatabaseManager_add_user(DatabaseManager_initialize_database,
                             Some("dogukanavci"), Some("dogukan@example.com"))

\* The attributes after __init__.
FocusPage_init ==
    [user_id |-> FocusPage_init_db.ret[1],
     strategy_name |-> Str_pomodoro,
     strategy |-> StrategyFactory_create(Str_pomodoro).ret[1],
     strategy_combo |-> 0,
     timer |-> FALSE,
     remaining_time |-> 0,
     total_duration |-> 0,
     is_running |-> FALSE,
     is_paused |-> FALSE,
     session_start_time |-> None,
     current_task_id |-> None,
     start_btn |-> TRUE,
     pause_btn |-> TRUE,
     continue_btn |-> FALSE,
     complete_btn |-> FALSE]

\* change_strategy(index): the attributes it assigns.
FocusPage_change_strategy(p, index) ==
    [p EXCEPT !.strategy_name = strategy_map[index + 1],
              !.strategy = StrategyFactory_create(strategy_map[index + 1]).ret[1]]

\* start_focus up to the call of execute_strategy, at clock reading t.
FocusPage_start_focus_timers(p, t) ==
    [p EXCEPT !.total_duration = durations[p.strategy_combo + 1] * SecondsPerMinute,
              !.remaining_time = durations[p.strategy_combo + 1] * SecondsPerMinute,
              !.session_start_time = Some(t)]

\* start_focus after execute_strategy has returned.
FocusPage_start_focus_run(p) ==
    [p EXCEPT !.timer = TRUE,
              !.is_running = TRUE,
              !.is_paused = FALSE,
              !.start_btn = FALSE,
              !.pause_btn = TRUE,
              !.complete_btn = TRUE]

\* Whether start_focus returns at once.
FocusPage_start_focus_guard(p) == p.is_running

\* A pause_focus that leaves is_running set.
FocusPage_pause_focus_running(p) ==
    IF p.is_running
    THEN [p EXCEPT !.timer = FALSE,
                   !.is_paused = TRUE,
                   !.pause_btn = FALSE,
                   !.continue_btn = TRUE]
    ELSE p

FocusPage_pause_focus(p) ==
    IF p.is_running
    THEN [p EXCEPT !.timer = FALSE,
                   !.is_running = FALSE,
                   !.is_paused = TRUE,
                   !.pause_btn = FALSE,
                   !.continue_btn = TRUE]
    ELSE p

\* A continue_focus that starts the countdown over.
FocusPage_continue_focus_restart(p) ==
    IF p.is_paused
    THEN [p EXCEPT !.timer = TRUE,
                   !.is_running = TRUE,
                   !.is_paused = FALSE,
                   !.remaining_time = p.total_duration,
                   !.continue_btn = FALSE,
                   !.pause_btn = TRUE]
    ELSE p

FocusPage_continue_focus(p) ==
    IF p.is_paused
    THEN [p EXCEPT !.timer = TRUE,
                   !.is_running = TRUE,
                   !.is_paused = FALSE,
                   !.continue_btn = FALSE,
                   !.pause_btn = TRUE]
    ELSE p

FocusPage_reset_focus(p) ==
    [p EXCEPT !.timer = FALSE,
              !.remaining_time = 0,
              !.is_running = FALSE,
              !.is_paused = FALSE,
              !.start_btn = TRUE,
              !.pause_btn = TRUE,
              !.continue_btn = FALSE,
              !.complete_btn = FALSE]

\* The whole minutes elapsed, without the minimum of one.
FocusPage_duration_minutes_floor(p) ==
    int_div(p.total_duration - p.remaining_time, SecondsPerMinute)

\* duration_minutes = max(1, int(elapsed_seconds / 60))
FocusPage_duration_minutes(p) ==
    max(1, int_div(p.total_duration - p.remaining_time, SecondsPerMinute))

\* The writes of complete_session, at clock reading t: add_focus_minutes,
\* update_streak, update_average_session and, with a start time,
\* log_session.
FocusPage_save(p, d, duration_minutes, t) ==
    LET d1 == DatabaseManager_add_focus_minutes(d, p.user_id, duration_minutes, t)
        d2 == DatabaseManager_update_streak(d1, p.user_id, t)
        d3 == DatabaseManager_update_average_session(d2, p.user_id)
    IN  IF p.session_start_time # None
        THEN DatabaseManager_log_session(d3, p.current_task_id, p.strategy_name,
                                         p.session_start_time[1], t,
                                         duration_minutes)
        ELSE d3

\* A complete_session that asks only whether a session was ever started.
FocusPage_complete_session_started(p, d, t) ==
    IF p.session_start_time = None
    THEN [page |-> p, db |-> d, box |-> "No Active Session"]
    ELSE LET stopped == [p EXCEPT !.timer = FALSE, !.is_running = FALSE]
             duration_minutes == FocusPage_duration_minutes(stopped)
         IN  [page |-> FocusPage_reset_focus(stopped),
              db |-> FocusPage_save(stopped, d, duration_minutes, t),
              box |-> "Session Complete!"]

\* complete_session at clock reading t: the page and the database after
\* it, and the title of the message box it showed.
FocusPage_complete_session(p, d, t) ==
    IF ~p.is_running /\ ~p.is_paused
    THEN [page |-> p, db |-> d, box |-> "No Active Session"]
    ELSE IF p.session_start_time = None
    THEN [page |-> p, db |-> d, box |-> "No Active Session"]
    ELSE LET stopped == [p EXCEPT !.timer = FALSE, !.is_running = FALSE]
             duration_minutes == FocusPage_duration_minutes(stopped)
         IN  IF duration_minutes < 1
             THEN [page |-> FocusPage_reset_focus(stopped), db |-> d,
                   box |-> "Too Short"]
             ELSE [page |-> FocusPage_reset_focus(stopped),
                   db |-> FocusPage_save(stopped, d, duration_minutes, t),
                   box |-> "Session Complete!"]

\* A tick that completes the session whatever time remains.
FocusPage_update_timer_eager(p, d, t) == FocusPage_complete_session(p, d, t)

\* A tick that counts two seconds while more than one remains.
FocusPage_update_timer_double(p, d, t) ==
    IF p.remaining_time > 1
    THEN [page |-> [p EXCEPT !.remaining_time = @ - 2], db |-> d, box |-> ""]
    ELSE IF p.remaining_time > 0
    THEN [page |-> [p EXCEPT !.remaining_time = @ - 1], db |-> d, box |-> ""]
    ELSE FocusPage_complete_session(p, d, t)

\* update_timer at clock reading t.
FocusPage_update_timer(p, d, t) ==
    IF p.remaining_time > 0
    THEN [page |-> [p EXCEPT !.remaining_time = @ - 1], db |-> d, box |-> ""]
    ELSE FocusPage_complete_session(p, d, t)

\* The user picks another item of the combo box: currentIndexChanged calls
\* change_strategy with the new index.
ChangeStrategy(index) ==
    /\ index # page.strategy_combo
    /\ page' = FocusPage_change_strategy([page EXCEPT !.strategy_combo = index], index)
    /\ planner_strategy' = Planner_set_strategy(Some(page'.strategy))
    /\ last' = Call("change_strategy", <<index>>)
    /\ ret' = None /\ err' = NoError /\ calls' = <<>>
    /\ UNCHANGED <<heap_vars, planner_user, planner_tasks, db, now>>

\* What datetime.now() may read: the clock does not run backwards.
ClockReadings == {t \in Instants : t >= now}

\* start_focus.  It reads the clock unless it returns at once.
\* execute_strategy raises when the planner has no strategy: the timers
\* are set by then and the timer is not started.
StartFocus ==
    /\ last' = Call("start_focus", <<>>)
    /\ ret' = None
    /\ IF FocusPage_start_focus_guard(page)
       THEN /\ err' = NoError /\ calls' = <<>>
            /\ UNCHANGED <<page, now>>
       ELSE \E t \in ClockReadings :
               LET out == Planner_execute_strategy
                   set == FocusPage_start_focus_timers(page, t)
               IN  /\ now' = t
                   /\ err' = out.err
                   /\ calls' = out.calls
                   /\ page' = IF out.err = NoError
                              THEN FocusPage_start_focus_run(set) ELSE set
    /\ UNCHANGED <<heap_vars, planner_vars, db>>

PauseFocus ==
    /\ page' = FocusPage_pause_focus(page)
    /\ last' = Call("pause_focus", <<>>)
    /\ ret' = None /\ err' = NoError /\ calls' = <<>>
    /\ UNCHANGED <<heap_vars, planner_vars, db, now>>

ContinueFocus ==
    /\ page' = FocusPage_continue_focus(page)
    /\ last' = Call("continue_focus", <<>>)
    /\ ret' = None /\ err' = NoError /\ calls' = <<>>
    /\ UNCHANGED <<heap_vars, planner_vars, db, now>>

ResetFocus ==
    /\ page' = FocusPage_reset_focus(page)
    /\ last' = Call("reset_focus", <<>>)
    /\ ret' = None /\ err' = NoError /\ calls' = <<>>
    /\ UNCHANGED <<heap_vars, planner_vars, db, now>>

\* What a handler that may complete the session leaves behind.  After the
\* writes load_pending_tasks builds a new Planner with the page's strategy
\* and the pending tasks of the tasks table, which is empty here.
Completed(op, out, t) ==
    /\ page' = out.page
    /\ db' = out.db
    /\ last' = Call(op, <<>>)
    /\ ret' = IF out.box = "" THEN None ELSE Some(out.box)
    /\ err' = NoError /\ calls' = <<>>
    /\ IF out.box = "Session Complete!"
       THEN /\ now' = t
            /\ planner_strategy' = Some(page.strategy)
            /\ lists' = [lists EXCEPT ![planner_tasks[1]] = <<>>]
       ELSE UNCHANGED <<now, planner_strategy, lists>>
    /\ UNCHANGED <<tasks, users, planner_user, planner_tasks>>

\* Whether complete_session gets as far as reading the clock.
FocusPage_complete_session_saves(p) ==
    (p.is_running \/ p.is_paused) /\ p.session_start_time # None

\* A tick of the QTimer, which fires while it is active.
UpdateTimer ==
    /\ page.timer
    /\ IF page.remaining_time = 0 /\ FocusPage_complete_session_saves(page)
       THEN \E t \in ClockReadings :
               Completed("update_timer", FocusPage_update_timer(page, db, t), t)
       ELSE Completed("update_timer", FocusPage_update_timer(page, db, now), now)

CompleteSession ==
    IF FocusPage_complete_session_saves(page)
    THEN \E t \in ClockReadings :
            Completed("complete_session", FocusPage_complete_session(page, db, t), t)
    ELSE Completed("complete_session", FocusPage_complete_session(page, db, now), now)

\* The page after __init__ on a new database file, the clock at instant 0.
FocusInit ==
    /\ tasks = <<>>
    /\ lists = << <<>>, <<>> >>
    /\ users = << InitUsers[1] >>
    /\ planner_user = 1
    /\ planner_tasks = Some(2)
    /\ planner_strategy = Some(FocusPage_init.strategy)
    /\ last = Call("FocusPage", <<>>)
    /\ ret = None
    /\ err = NoError
    /\ calls = <<>>
    /\ page = FocusPage_init
    /\ db = FocusPage_init_db.db
    /\ now = 0

\* The seconds counted down since the session started.
FocusPage_elapsed(p) == p.total_duration - p.remaining_time

\* Any sequence of the handlers and of timer ticks, through the first
\* MaxTicks seconds of a session and until MaxSessions sessions are logged.
FocusNext ==
    \/ \E index \in ComboIndexes : ChangeStrategy(index)
    \/ (page.is_running \/ Len(db.sessions) < MaxSessions) /\ StartFocus
    \/ PauseFocus
    \/ ContinueFocus
    \/ ResetFocus
    \/ FocusPage_elapsed(page) < MaxTicks /\ UpdateTimer
    \/ CompleteSession

SpecFocus == FocusInit /\ [][FocusNext]_vars

\* Sessions completed at every second of their first MaxElapsed seconds,
\* running or paused, the strategy picked between sessions: SpecMinutes.
MinutesNext ==
    \/ \E index \in ComboIndexes :
          ~page.is_running /\ ~page.is_paused /\ ChangeStrategy(index)
    \/ (page.is_running \/ Len(db.sessions) < MaxSessions) /\ StartFocus
    \/ PauseFocus
    \/ FocusPage_elapsed(page) < MaxElapsed /\ UpdateTimer
    \/ CompleteSession

SpecMinutes == FocusInit /\ [][MinutesNext]_vars

----------------------------------------------------------------------------
(* Claims about the focus page, checked under SpecFocus; C22 is checked    *)
(* under SpecMinutes and C26 under SpecFocusFair.                          *)

\* The handlers that are not complete_session.
OtherHandlers ==
    {"change_strategy", "start_focus", "pause_focus", "continue_focus",
     "reset_focus"}

\* C21: on the focus page the database is written only by complete_session:
\* no change_strategy, start_focus, pause_focus, continue_focus, reset_focus
\* and no timer tick with remaining_time > 0 changes a row of any table, so
\* none adds focus minutes, updates the streak or logs a session; a step
\* that changes the database is a complete_session, called directly or by
\* the tick at remaining_time = 0.
C21_OnlyCompleteSessionWrites ==
    [][/\ (\/ last'.op \in OtherHandlers
           \/ last'.op = "update_timer" /\ page.remaining_time > 0)
          => db' = db
       /\ db' # db
          => (\/ last'.op = "complete_session"
              \/ last'.op = "update_timer" /\ page.remaining_time = 0)]_vars

\* A session of another strategy than the first, started anew after a
\* pause or a reset and counting down, with the database as __init__ left
\* it.
C21_Witness ==
    /\ last.op = "update_timer"
    /\ page.is_running
    /\ page.remaining_time < page.total_duration
    /\ page.strategy_name = Str_deepwork
    /\ page.session_start_time = Some(1)
    /\ db = FocusPage_init_db.db

\* C22: every session complete_session records has a duration of at least
\* one minute: the minutes logged, and added to the user's focus minutes,
\* are max(1, floor(elapsed_seconds / 60)) with elapsed_seconds =
\* total_duration - remaining_time, so a session completed right after its
\* start is recorded as 1 minute; complete_session on an active session
\* always records, and the 'too short' rejection is never taken.
C22_RecordedMinutes ==
    /\ [](/\ ret # Some("Too Short")
          /\ \A i \in 1..Len(db.sessions) : db.sessions[i].duration >= 1)
    /\ [][(/\ last'.op \in {"complete_session", "update_timer"}
           /\ (page.is_running \/ page.is_paused)
           /\ last'.op = "update_timer" => page.remaining_time = 0)
          => LET elapsed_seconds == page.total_duration - page.remaining_time
                 minutes == max(1, elapsed_seconds \div 60)
             IN  /\ Len(db'.sessions) = Len(db.sessions) + 1
                 /\ db'.sessions[Len(db'.sessions)].duration = minutes
                 /\ db'.users[1].total_focus_minutes
                       = db.users[1].total_focus_minutes + minutes
                 /\ (elapsed_seconds = 0 => minutes = 1)]_vars

\* A session completed after two whole minutes, recorded as 2 minutes.
C22_Witness ==
    /\ last.op = "complete_session"
    /\ ret = Some("Session Complete!")
    /\ Len(db.sessions) = 1
    /\ db.sessions[1].duration = 2
    /\ db.users[1].total_focus_minutes = 2

\* The attributes of a session that a pause and a continue are to keep.
SessionTimes(p) == <<p.remaining_time, p.total_duration, p.session_start_time>>

\* C24: pause_focus followed by continue_focus returns a running session to
\* the running state (timer active, is_running true, is_paused false) with
\* remaining_time, total_duration and session_start_time unchanged:
\* pause_focus on a running session pauses it and keeps the three,
\* continue_focus on a paused one resumes it and keeps the three;
\* pause_focus when no session is running and continue_focus when the
\* session is not paused change nothing.
C24_PauseContinue ==
    /\ [](page.is_running =>
             LET resumed == FocusPage_continue_focus(FocusPage_pause_focus(page))
             IN  /\ resumed.is_running /\ ~resumed.is_paused /\ resumed.timer
                 /\ SessionTimes(resumed) = SessionTimes(page))
    /\ [][/\ (last'.op = "pause_focus" /\ page.is_running)
             => (/\ page'.is_paused /\ ~page'.is_running /\ ~page'.timer
                 /\ SessionTimes(page') = SessionTimes(page))
          /\ (last'.op = "continue_focus" /\ page.is_paused)
             => (/\ page'.is_running /\ ~page'.is_paused /\ page'.timer
                 /\ SessionTimes(page') = SessionTimes(page))
          /\ (last'.op = "pause_focus" /\ ~page.is_running)
             => (page' = page /\ db' = db /\ planner_strategy' = planner_strategy)
          /\ (last'.op = "continue_focus" /\ ~page.is_paused)
             => (page' = page /\ db' = db /\ planner_strategy' = planner_strategy)
         ]_vars

\* A session resumed by continue_focus one second into its countdown, the
\* continue button hidden again.
C24_Witness ==
    /\ last.op = "continue_focus"
    /\ page.is_running /\ ~page.is_paused /\ page.timer
    /\ page.pause_btn /\ ~page.continue_btn
    /\ page.remaining_time = page.total_duration - 1
    /\ page.session_start_time = Some(0)

\* C25: in every reachable state of the focus page, under any sequence of
\* start_focus, pause_focus, continue_focus, reset_focus, complete_session
\* and timer ticks, is_running and is_paused are never both true, and the
\* timer is active exactly while is_running is true, so that it ticks only
\* then.
C25_FlagsExclusive ==
    /\ [](/\ ~(page.is_running /\ page.is_paused)
          /\ page.timer <=> page.is_running)
    /\ [][last'.op = "update_timer" => page.is_running]_vars

\* A paused session: is_paused alone is true and the timer is stopped.
C25_Witness ==
    /\ last.op = "pause_focus"
    /\ page.is_paused /\ ~page.is_running /\ ~page.timer
    /\ page.remaining_time < page.total_duration

----------------------------------------------------------------------------
(* A session left to run: SpecFocusFair.  The user starts sessions and      *)
(* picks strategies and never pauses, resets or completes by hand.  The    *)
(* QTimer fires every second while it is active, whatever else the event   *)
(* loop handles: weak fairness of the tick.                                *)

FocusFairNext ==
    \/ \E index \in ComboIndexes : ChangeStrategy(index)
    \/ (page.is_running \/ Len(db.sessions) < MaxSessions) /\ StartFocus
    \/ UpdateTimer

SpecFocusFair == FocusInit /\ [][FocusFairNext]_vars /\ WF_vars(UpdateTimer)

\* The page with no session: both flags false, the timer stopped.
Idle(p) == ~p.is_running /\ ~p.is_paused /\ ~p.timer

\* C26: a focus session that is started and then neither paused nor reset
\* eventually completes under fair timer ticks: start_focus sets
\* remaining_time to total_duration, every tick with time remaining takes
\* exactly 1 from remaining_time and leaves total_duration alone,
\* remaining_time stays within 0..total_duration, the tick at 0 logs
\* exactly one session record, and the page ends idle with the timer
\* stopped and that record logged.
C26_SessionCompletes ==
    /\ [](page.remaining_time \in 0..page.total_duration)
    /\ [][/\ (last'.op = "start_focus" /\ ~page.is_running)
             => (page'.remaining_time = page'.total_duration /\ db' = db)
          /\ (last'.op = "update_timer" /\ page.remaining_time > 0)
             => (/\ page'.remaining_time = page.remaining_time - 1
                 /\ page'.total_duration = page.total_duration
                 /\ page'.is_running
                 /\ db' = db)
          /\ (last'.op = "update_timer" /\ page.remaining_time = 0)
             => (/\ Len(db'.sessions) = Len(db.sessions) + 1
                 /\ Idle(page')
                 /\ page'.remaining_time = 0)
         ]_vars
    /\ \A n \in 0..MaxSessions :
          (page.is_running /\ Len(db.sessions) = n)
             ~> (Idle(page) /\ Len(db.sessions) = n + 1)

\* The tick at remaining_time = 0 of a pomodoro session has logged its 25
\* minutes and left the page idle.
C26_Witness ==
    /\ last.op = "update_timer"
    /\ ret = Some("Session Complete!")
    /\ Idle(page)
    /\ page.remaining_time = 0
    /\ Len(db.sessions) = 1
    /\ db.sessions[1].duration = 25

\* C27: complete_session invoked when no session is active (is_running and
\* is_paused both false, as before any start or after reset_focus) writes
\* nothing to the database and leaves remaining_time, total_duration, the
\* flags and session_start_time, with every other attribute of the page,
\* unchanged: it shows the 'No Active Session' warning and returns.
C27_CompleteWithoutSession ==
    [][(/\ last'.op = "complete_session"
        /\ ~page.is_running /\ ~page.is_paused)
       => (/\ db' = db
           /\ page' = page
           /\ planner_strategy' = planner_strategy
           /\ ret' = Some("No Active Session"))]_vars

\* complete_session after a session was started and reset: the start time
\* and the total duration of that session are still set, and nothing was
\* written.
C27_Witness ==
    /\ last.op = "complete_session"
    /\ ret = Some("No Active Session")
    /\ ~page.is_running /\ ~page.is_paused
    /\ page.session_start_time # None
    /\ page.total_duration > 0
    /\ page.remaining_time = 0
    /\ db = FocusPage_init_db.db

\* The strategy whose duration is this total duration.
StrategyOfDuration(total_duration) ==
    {strategy_map[i] : i \in {j \in 1..Len(durations) :
                                durations[j] * SecondsPerMinute = total_duration}}

\* C28: the strategy label logged with a completed focus session is the
\* strategy that was selected when that session was started, the one whose
\* duration set total_duration, even if change_strategy is invoked while
\* the session is running or paused.
C28_LabelOfStart ==
    [][Len(db'.sessions) = Len(db.sessions) + 1
       => db'.sessions[Len(db'.sessions)].strategy
             \in StrategyOfDuration(page.total_duration)]_vars

\* C29: start_focus is a no-op whenever a session is already active, that
\* is running or paused: it does not reset remaining_time, total_duration
\* or session_start_time and does not run the strategy again.
C29_StartNoopWhenActive ==
    [][(/\ last'.op = "start_focus"
        /\ page.is_running \/ page.is_paused)
       => (/\ SessionTimes(page') = SessionTimes(page)
           /\ calls' = <<>>)]_vars

====
